---- MODULE Spec2Model ----
(***************************************************************************)
(* Drill session engine of the chess opening trainer (StudySession,        *)
(* storage.ts, the SM-2 call of completeSession).                          *)
(*                                                                         *)
(* One repertoire holding one line is stored.  Sessions on that line are   *)
(* mounted one after the other.  React state belongs to the mounted        *)
(* component; a timer callback keeps the values of the render in which it  *)
(* was created (its closure), and it is not cleared when the component     *)
(* unmounts.  The chess object of a session is mutable and shared between  *)
(* the handlers and the timers of that session.                            *)
(*                                                                         *)
(* Board positions are abstracted to the number of moves of the line that  *)
(* have been applied from the start position: every position the session  *)
(* reaches is a prefix of the line, an incorrect move being undone at      *)
(* once.  The oracle accepts the SAN of move k exactly in the position     *)
(* after k moves.  Indices are 0-based as in the source.  The easiness     *)
(* factor is kept in tenths, times in days.                                *)
(*                                                                         *)
(* The PGN parser (pgnParser.ts) and the import page (HomePage) are        *)
(* modelled beside the session engine: the markup of a comment on its      *)
(* characters, the text of a file on its lines and tokens.  The functions  *)
(* of storage.ts are also run on their own, from empty storage and from a  *)
(* new repertoire; the accuracy is computed in double arithmetic.          *)
(***************************************************************************)
EXTENDS Integers, Sequences, FiniteSets, TLC

\* ------------------------------------------------------------------ bounds
\* longest line, in moves
MaxMoves == 3
\* move attempts (accepted or rejected) counted over all sessions
MaxAttempts == 4
\* latest day of the clock
MaxNow == 1
\* the scheduler is applied to states of at most this interval, in days,
MaxInterval == 20
\* and of fewer than this many consecutive correct reviews
MaxReps == 5
\* longest PGN text, in tokens
MaxTokens == 5
\* longest comment handed to the markup parser, in segments
MaxSegments == 4
\* longest PGN file, in lines
MaxLines == 4
\* lines of the repertoire whose due lines are listed
MaxCards == 3
\* largest correct count and largest incorrect count of one counter update
MaxCount == 3
\* the counters are updated while totalReviews stays within this number
MaxReviews == 40
\* repertoires that are saved, deleted and updated in storage
MaxRepertoires == 2

\* --------------------------------------------------------------- constants
NoMove == -1
NoTime == -1
NoComment == 0
InitialEF == 25
MinEF == 13
RepId == "r1"
CardId == "c1"

VARIABLES
    repertoires,      \* localStorage: the stored repertoires
    now,              \* Date.now(), in days
    attempts,         \* number of move attempts counted so far
    cur,              \* the mounted session, 0 when none is mounted
    chess,            \* chess[s]: moves applied on the chess object of session s
    timers,           \* pending playOpponentMoves timers, each with its closure
    startTimer,       \* the 500 ms timer of loadCard is pending
    replay,           \* autoPlayToFirstMistake suspended at its await
    currentCard, boardPosition, currentMoveIndex, sessionCorrect,
    sessionIncorrect, selectedSquare, errorCount, showFeedback,
    isAutoPlaying, moveMistakes,          \* React state of the mounted session
    hist,             \* per session: what the user really did
    lastCall,         \* the completeSession call of the last step, if any
    event,            \* the handler that ran last
    pgnText,          \* HomePage: the PGN text typed in, a sequence of tokens
    fileContent,      \* HomePage: the text of the PGN file chosen, its lines
    games,            \* parsePGNToFlashcards: the games the text was split into
    rawComment,       \* parseCommentMarkup: the comment handed in, its segments
    parsedComment,    \* parseCommentMarkup: the ParsedComment returned
    storageCall       \* storage.ts: the call made in the last step, if any

react == <<currentCard, boardPosition, currentMoveIndex, sessionCorrect,
           sessionIncorrect, selectedSquare, errorCount, showFeedback,
           isAutoPlaying, moveMistakes>>
vars == <<repertoires, now, attempts, cur, chess, timers, startTimer, replay,
          currentCard, boardPosition, currentMoveIndex, sessionCorrect,
          sessionIncorrect, selectedSquare, errorCount, showFeedback,
          isAutoPlaying, moveMistakes, hist, lastCall, event, pgnText,
          fileContent, games, rawComment, parsedComment, storageCall>>

\* the state of the import page and of the parser, and the storage call made
\* from outside a session
parserVars == <<pgnText, fileContent, games, rawComment, parsedComment,
                storageCall>>

Sessions == 1..(MaxAttempts + 1)

\* ------------------------------------------------------------------- lines
\* extractCompleteLine: the colour of a move is the side to move before it,
\* starting from the initial position, so colours alternate from White.  The
\* notation of a move is abstracted to the position of the line it is played
\* in: san = k stands for the text of the k-th move (0-based).
LineMoves(n) ==
    [i \in 1..n |-> [san |-> i - 1, color |-> IF i % 2 = 1 THEN "w" ELSE "b"]]

NewCardDueLater(n, t) ==
    [id |-> CardId, startFen |-> 0, moves |-> LineMoves(n), name |-> "line",
     easinessFactor |-> InitialEF, interval |-> 0, repetitions |-> 0,
     nextReviewDate |-> t + 1, lastReviewed |-> NoTime, mistakeIndices |-> {}]

\* parsePGNToFlashcards: a newly parsed line
NewCard(n, t) ==
    [id |-> CardId, startFen |-> 0, moves |-> LineMoves(n), name |-> "line",
     easinessFactor |-> InitialEF, interval |-> 0, repetitions |-> 0,
     nextReviewDate |-> t, lastReviewed |-> NoTime, mistakeIndices |-> {}]

NullCard ==
    [id |-> "", startFen |-> 0, moves |-> << >>, name |-> "",
     easinessFactor |-> 0, interval |-> 0, repetitions |-> 0,
     nextReviewDate |-> 0, lastReviewed |-> NoTime, mistakeIndices |-> {}]

\* processPGNContent: a new repertoire with zeroed counters
NewRepertoire(cards, t) ==
    [id |-> RepId, flashcards |-> cards, lastStudied |-> NoTime,
     streak |-> 0, longestStreak |-> 0,
     stats |-> [totalReviews |-> 0, correctReviews |-> 0, accuracy |-> 0]]

NumMoves(card) == Len(card.moves)
ColorAt(card, i) == card.moves[i + 1].color
SanAt(card, i) == card.moves[i + 1].san

\* ----------------------------------------------------------------- storage
\* findIndex(x => x.id === id): first position with that id, 0 when absent
findIndex(seq, id) ==
    IF \E i \in 1..Len(seq) : seq[i].id = id
    THEN CHOOSE i \in 1..Len(seq) :
             seq[i].id = id /\ \A j \in 1..(i - 1) : seq[j].id # id
    ELSE 0

getRepertoireIndex(data, id) == findIndex(data, id)

saveRepertoireAppends(data, repertoire) == Append(data, repertoire)

\* getRepertoire: find(r => r.id === id), undefined when absent
Undefined == [id |-> "undefined"]

getRepertoire(data, id) ==
    LET k == getRepertoireIndex(data, id)
    IN IF k = 0 THEN Undefined ELSE data[k]

\* deleteRepertoire: filter(r => r.id !== id)
deleteRepertoire(data, id) == SelectSeq(data, LAMBDA r : r.id # id)

saveRepertoire(data, repertoire) ==
    LET k == getRepertoireIndex(data, repertoire.id)
    IN IF k > 0 THEN [data EXCEPT ![k] = repertoire]
       ELSE Append(data, repertoire)

updateFlashcard(data, repertoireId, flashcard) ==
    LET k == getRepertoireIndex(data, repertoireId)
    IN IF k = 0 THEN data
       ELSE LET ci == findIndex(data[k].flashcards, flashcard.id)
            IN IF ci = 0 THEN data
               ELSE saveRepertoire(data,
                      [data[k] EXCEPT !.flashcards[ci] = flashcard])

\* ----------------------------------------------------------- Number values
\* A Number of JavaScript is an IEEE 754 double.  A positive one is kept as
\* [m2, m1, m0, e]: its value is (m2 * 2^36 + m1 * 2^18 + m0) * 2^e with a
\* significand of exactly 53 bits, so m2 has 17 bits and m1, m0 have 18.
Limb == 2^18

\* round to nearest, ties to even: guard is the first bit dropped, sticky
\* says whether a later dropped bit was set
RoundEven(m2, m1, m0, e, guard, sticky) ==
    IF ~(guard = 1 /\ (sticky \/ m0 % 2 = 1))
    THEN [m2 |-> m2, m1 |-> m1, m0 |-> m0, e |-> e]
    ELSE IF m0 + 1 < Limb THEN [m2 |-> m2, m1 |-> m1, m0 |-> m0 + 1, e |-> e]
    ELSE IF m1 + 1 < Limb THEN [m2 |-> m2, m1 |-> m1 + 1, m0 |-> 0, e |-> e]
    ELSE IF m2 + 1 < 2^17 THEN [m2 |-> m2 + 1, m1 |-> 0, m0 |-> 0, e |-> e]
    ELSE [m2 |-> 2^16, m1 |-> 0, m0 |-> 0, e |-> e + 1]

\* the k with 1 <= x * 2^k / y < 2, and the remainder x * 2^k - y
RECURSIVE Normalise(_, _, _)
Normalise(x, y, k) ==
    IF 2 * x >= y THEN [k |-> k, r |-> 2 * x - y]
    ELSE Normalise(2 * x, y, k + 1)

\* x / y for integers 0 < x < y < 2^22: long division to 53 bits, the
\* leading one, then 8, 8, 9, 9, 9 and 9 bits, and the guard bit
Divide(x, y) ==
    LET n == Normalise(x, y, 1)
        d1 == (n.r * 256) \div y
        r1 == (n.r * 256) % y
        d2 == (r1 * 256) \div y
        r2 == (r1 * 256) % y
        d3 == (r2 * 512) \div y
        r3 == (r2 * 512) % y
        d4 == (r3 * 512) \div y
        r4 == (r3 * 512) % y
        d5 == (r4 * 512) \div y
        r5 == (r4 * 512) % y
        d6 == (r5 * 512) \div y
        r6 == (r5 * 512) % y
        g == (r6 * 2) \div y
        r7 == (r6 * 2) % y
    IN RoundEven(2^16 + d1 * 256 + d2, d3 * 512 + d4, d5 * 512 + d6,
                 -n.k - 52, g, r7 # 0)

\* d * 100: the exact product has 59 or 60 bits and is rounded to 53
Times100(d) ==
    LET p0 == d.m0 * 100
        l0 == p0 % Limb
        p1 == d.m1 * 100 + p0 \div Limb
        l1 == p1 % Limb
        p2 == d.m2 * 100 + p1 \div Limb
        s == IF p2 < 2^23 THEN 6 ELSE 7
        w == 2^s
    IN RoundEven(p2 \div w,
                 l1 \div w + (p2 % w) * (Limb \div w),
                 l0 \div w + (l1 % w) * (Limb \div w),
                 d.e + s,
                 (l0 \div 2^(s - 1)) % 2,
                 l0 % 2^(s - 1) # 0)

\* Math.round(d) for d < 2^16: the nearest integer, a tie going upwards,
\* which is floor((floor(2 * d) + 1) / 2)
MathRound(d) ==
    LET sh == -d.e - 1
        twice == IF sh >= 53 THEN 0 ELSE d.m2 \div 2^(sh - 36)
    IN (twice + 1) \div 2

RoundPercentExact(x, y) == (200 * x + y) \div (2 * y)

\* the value of a one-element set: an operand bound through a set is
\* evaluated once, however often the operator refers to it
Once(S) == CHOOSE v \in S : TRUE

\* Math.round((x / y) * 100) for integers 0 <= x <= y, y > 0
RoundPercent(x, y) ==
    Once({IF a = 0 THEN 0
          ELSE IF a = b THEN 100
          ELSE Once({MathRound(p) :
                       p \in {Times100(q) : q \in {Divide(a, b)}}}) :
            a \in {x}, b \in {y}})

updateRepertoireStats(data, repertoireId, correctCount, incorrectCount, streakBroken, t) ==
    LET k == getRepertoireIndex(data, repertoireId)
    IN IF k = 0 THEN data
       ELSE LET r == data[k]
                total == r.stats.totalReviews + correctCount + incorrectCount
                corr == r.stats.correctReviews + correctCount
                acc == IF total > 0 THEN RoundPercent(corr, total) ELSE 0
                streak == IF streakBroken THEN 0 ELSE r.streak + correctCount
                longest == IF streak > r.longestStreak THEN streak
                           ELSE r.longestStreak
            IN saveRepertoire(data,
                 [r EXCEPT !.lastStudied = t,
                           !.stats = [totalReviews |-> total,
                                      correctReviews |-> corr,
                                      accuracy |-> acc],
                           !.streak = streak,
                           !.longestStreak = longest])

StoredCard(data) ==
    LET k == getRepertoireIndex(data, RepId)
    IN data[k].flashcards[findIndex(data[k].flashcards, CardId)]

StoredStats(data) == data[getRepertoireIndex(data, RepId)].stats

RECURSIVE DueOfStrictlyBefore(_, _)
DueOfStrictlyBefore(flashcards, t) ==
    IF flashcards = << >> THEN << >>
    ELSE (IF Head(flashcards).nextReviewDate < t
          THEN << Head(flashcards) >> ELSE << >>)
           \o DueOfStrictlyBefore(Tail(flashcards), t)

\* repertoire.flashcards.filter(card => card.nextReviewDate <= now)
RECURSIVE DueOf(_, _)
DueOf(flashcards, t) ==
    IF flashcards = << >> THEN << >>
    ELSE (IF Head(flashcards).nextReviewDate <= t
          THEN << Head(flashcards) >> ELSE << >>)
           \o DueOf(Tail(flashcards), t)

\* getDueFlashcards at time t
getDueFlashcards(data, repertoireId, t) ==
    LET k == getRepertoireIndex(data, repertoireId)
    IN IF k = 0 THEN << >> ELSE DueOf(data[k].flashcards, t)

\* --------------------------------------------------------------- scheduler
Max(a, b) == IF a >= b THEN a ELSE b

calculateSM2KeepsInterval(quality, easinessFactor, interval, repetitions) ==
    LET ef == IF quality = 1 THEN Max(MinEF, easinessFactor + 1)
              ELSE Max(MinEF, easinessFactor - 8)
        reps == IF quality = 1 THEN repetitions + 1 ELSE 0
        int == IF quality = 0 THEN interval
               ELSE IF reps = 1 THEN 1
               ELSE IF reps = 2 THEN 6
               ELSE (interval * ef + 5) \div 10
    IN [easinessFactor |-> ef, interval |-> int, repetitions |-> reps]

calculateSM2OldFactor(quality, easinessFactor, interval, repetitions) ==
    LET ef == IF quality = 1 THEN Max(MinEF, easinessFactor + 1)
              ELSE Max(MinEF, easinessFactor - 8)
        reps == IF quality = 1 THEN repetitions + 1 ELSE 0
        int == IF quality = 0 THEN 1
               ELSE IF reps = 1 THEN 1
               ELSE IF reps = 2 THEN 6
               ELSE (interval * easinessFactor + 5) \div 10
    IN [easinessFactor |-> ef, interval |-> int, repetitions |-> reps]

calculateSM2NoFloor(quality, easinessFactor, interval, repetitions) ==
    LET ef == IF quality = 1 THEN easinessFactor + 1 ELSE easinessFactor - 8
        reps == IF quality = 1 THEN repetitions + 1 ELSE 0
        int == IF quality = 0 THEN 1
               ELSE IF reps = 1 THEN 1
               ELSE IF reps = 2 THEN 6
               ELSE (interval * ef + 5) \div 10
    IN [easinessFactor |-> ef, interval |-> int, repetitions |-> reps]

\* quality 1 is outcome Correct (q = 4), quality 0 is Incorrect (q = 0)
calculateSM2(quality, easinessFactor, interval, repetitions) ==
    LET ef == IF quality = 1 THEN Max(MinEF, easinessFactor + 1)
              ELSE Max(MinEF, easinessFactor - 8)
        reps == IF quality = 1 THEN repetitions + 1 ELSE 0
        int == IF quality = 0 THEN 1
               ELSE IF reps = 1 THEN 1
               ELSE IF reps = 2 THEN 6
               ELSE (interval * ef + 5) \div 10
    IN [easinessFactor |-> ef, interval |-> int, repetitions |-> reps]

getNextReviewDate(interval, t) == t + interval

\* ------------------------------------------------------------------ oracle
\* chess.move(san) on the position after `board` moves, san being the text
\* of move k of the line: accepted in the position that move is played in.
\* The text NoMove is accepted in no position.
ChessMoveOk(board, k) == board = k

\* chess.turn() on the position after `board` moves from the start position
Turn(board) == IF board % 2 = 0 THEN "w" ELSE "b"

\* ----------------------------------------------------------------- session
\* currentExpectedMove: index of the next White move at or after the cursor
currentExpectedMove(card, idx) ==
    IF card.id = "" \/ idx >= NumMoves(card) THEN NoMove
    ELSE LET W == {i \in idx..(NumMoves(card) - 1) : ColorAt(card, i) = "w"}
         IN IF W = {} THEN NoMove
            ELSE CHOOSE i \in W : \A j \in W : i <= j

LoadMistakesNone(card) == {}

\* loadCard: the session mistake set starts from the saved indices
LoadMistakes(card) == card.mistakeIndices

FirstMistakeIndexInclusive(card, mistakes) ==
    LET V == {m \in mistakes : m < NumMoves(card)}
    IN IF V = {} THEN -1 ELSE (CHOOSE m \in V : \A x \in V : m <= x) + 1

\* autoPlayToFirstMistake: smallest recorded index inside the line, or -1
FirstMistakeIndex(card, mistakes) ==
    LET V == {m \in mistakes : m < NumMoves(card)}
    IN IF V = {} THEN -1 ELSE CHOOSE m \in V : \A x \in V : m <= x

RECURSIVE PlayBlackSkipping(_, _, _)
PlayBlackSkipping(card, nextIndex, board) ==
    IF nextIndex < NumMoves(card) /\ ColorAt(card, nextIndex) = "b"
    THEN IF ChessMoveOk(board, SanAt(card, nextIndex))
         THEN PlayBlackSkipping(card, nextIndex + 1, board + 1)
         ELSE PlayBlackSkipping(card, nextIndex + 1, board)
    ELSE [nextIndex |-> nextIndex, board |-> board]

PlayNoBlack(card, nextIndex, board) ==
    [nextIndex |-> nextIndex, board |-> board]

\* playOpponentMoves: the loop over consecutive Black moves
RECURSIVE PlayBlack(_, _, _)
PlayBlack(card, nextIndex, board) ==
    IF nextIndex < NumMoves(card) /\ ColorAt(card, nextIndex) = "b"
    THEN IF ChessMoveOk(board, SanAt(card, nextIndex))
         THEN PlayBlack(card, nextIndex + 1, board + 1)
         ELSE [nextIndex |-> nextIndex, board |-> board]
    ELSE [nextIndex |-> nextIndex, board |-> board]

FirstOpponentIndexAtCursor(idx) == idx

\* playOpponentMoves: the index the loop starts from
FirstOpponentIndex(idx) == idx + 1

\* completeSession: the outcome handed to calculateSM2 on completion
CompletionQuality(success) == IF success THEN 1 ELSE 0

\* completeSession: the mistake indices written to the line
MistakesToPersist(closureMistakes) == closureMistakes

UpdatedCardKeepsInterval(card, mistakes, success, updateCard, t) ==
    IF updateCard
    THEN LET r == calculateSM2(CompletionQuality(success), card.easinessFactor,
                               card.interval, card.repetitions)
         IN [card EXCEPT !.easinessFactor = r.easinessFactor,
                         !.repetitions = r.repetitions,
                         !.nextReviewDate = getNextReviewDate(r.interval, t),
                         !.lastReviewed = t,
                         !.mistakeIndices = MistakesToPersist(mistakes)]
    ELSE [card EXCEPT !.mistakeIndices = MistakesToPersist(mistakes)]

UpdatedCardAlwaysScheduled(card, mistakes, success, updateCard, t) ==
    LET r == calculateSM2(CompletionQuality(success), card.easinessFactor,
                          card.interval, card.repetitions)
    IN [card EXCEPT !.easinessFactor = r.easinessFactor,
                    !.interval = r.interval,
                    !.repetitions = r.repetitions,
                    !.nextReviewDate = getNextReviewDate(r.interval, t),
                    !.lastReviewed = t,
                    !.mistakeIndices = MistakesToPersist(mistakes)]

UpdatedCardOnlyOnCompletion(card, mistakes, success, updateCard, t) ==
    IF updateCard
    THEN LET r == calculateSM2(CompletionQuality(success), card.easinessFactor,
                               card.interval, card.repetitions)
         IN [card EXCEPT !.easinessFactor = r.easinessFactor,
                         !.interval = r.interval,
                         !.repetitions = r.repetitions,
                         !.nextReviewDate = getNextReviewDate(r.interval, t),
                         !.lastReviewed = t,
                         !.mistakeIndices = MistakesToPersist(mistakes)]
    ELSE card

\* completeSession: the card written by updateFlashcard
UpdatedCard(card, mistakes, success, updateCard, t) ==
    IF updateCard
    THEN LET r == calculateSM2(CompletionQuality(success), card.easinessFactor,
                               card.interval, card.repetitions)
         IN [card EXCEPT !.easinessFactor = r.easinessFactor,
                         !.interval = r.interval,
                         !.repetitions = r.repetitions,
                         !.nextReviewDate = getNextReviewDate(r.interval, t),
                         !.lastReviewed = t,
                         !.mistakeIndices = MistakesToPersist(mistakes)]
    ELSE [card EXCEPT !.mistakeIndices = MistakesToPersist(mistakes)]

\* completeSession: the storage after the call
completeSession(data, card, mistakes, correct, incorrect, success, updateCard, t) ==
    IF card.id = "" THEN data
    ELSE updateRepertoireStats(
           updateFlashcard(data, RepId,
                           UpdatedCard(card, mistakes, success, updateCard, t)),
           RepId, correct, incorrect, incorrect > 0, t)

\* ------------------------------------------------------------------- state
NoHist == [accepted |-> 0, rejected |-> 0, errIdx |-> {}, loaded |-> {},
           exited |-> FALSE]
NoCall == [sid |-> 0, success |-> FALSE, updateCard |-> FALSE,
           correctCount |-> 0, incorrectCount |-> 0, mistakes |-> {},
           accepted |-> 0, rejected |-> 0, errIdx |-> {}, loaded |-> {},
           afterExit |-> FALSE, board |-> 0]
NoReplay == [active |-> FALSE, moveIdx |-> 0, first |-> 0]

Unmounted ==
    /\ currentCard' = NullCard
    /\ boardPosition' = 0
    /\ currentMoveIndex' = 0
    /\ sessionCorrect' = 0
    /\ sessionIncorrect' = 0
    /\ selectedSquare' = FALSE
    /\ errorCount' = 0
    /\ showFeedback' = FALSE
    /\ isAutoPlaying' = FALSE
    /\ moveMistakes' = {}
    /\ startTimer' = FALSE
    /\ replay' = NoReplay

\* what parseCommentMarkup starts from: result.cleanText is the comment
NoParsed == [cleanText |-> << >>, highlightedSquares |-> << >>, arrows |-> << >>]

\* no call of saveRepertoire, deleteRepertoire or updateFlashcard was made
NoStorageCall == [op |-> "none", id |-> "", repertoire |-> NewRepertoire(<< >>, 0),
                  flashcard |-> NullCard]

\* no file is chosen on the import page
NoFile == fileContent = << >> /\ games = << >>

\* no comment is being parsed
NoMarkup == rawComment = << >> /\ parsedComment = NoParsed

\* no session is mounted and nothing has happened yet
Idle ==
    /\ now = 0
    /\ attempts = 0
    /\ cur = 0
    /\ chess = [s \in Sessions |-> 0]
    /\ timers = << >>
    /\ startTimer = FALSE
    /\ replay = NoReplay
    /\ currentCard = NullCard
    /\ boardPosition = 0
    /\ currentMoveIndex = 0
    /\ sessionCorrect = 0
    /\ sessionIncorrect = 0
    /\ selectedSquare = FALSE
    /\ errorCount = 0
    /\ showFeedback = FALSE
    /\ isAutoPlaying = FALSE
    /\ moveMistakes = {}
    /\ hist = [s \in Sessions |-> NoHist]
    /\ lastCall = NoCall
    /\ storageCall = NoStorageCall
    /\ event = "init"

\* the application before any session, with the given lines imported
Boot(cards) ==
    /\ repertoires = << NewRepertoire(cards, 0) >>
    /\ pgnText = << >>
    /\ NoFile
    /\ NoMarkup
    /\ Idle

Init == \E n \in 1..MaxMoves : Boot(<< NewCard(n, 0) >>)

\* A stored line with a data-integrity fault: the text of move k is one the
\* rules oracle accepts in no position (storage is read back with JSON.parse
\* as it is found).
CorruptCard(card, k) == [card EXCEPT !.moves[k + 1].san = NoMove]

FaultInit ==
    \E n \in 1..MaxMoves : \E k \in 0..(n - 1) :
        Boot(<< CorruptCard(NewCard(n, 0), k) >>)

\* The history kept for the sessions that can still act: the mounted one
\* and those with a pending timer
Alive(h, mounted, pending) ==
    [s \in Sessions |->
        IF s = mounted \/ \E i \in 1..Len(pending) : pending[i].sid = s
        THEN h[s] ELSE NoHist]

\* The chess objects of the sessions that can still act
AliveChess(c, mounted, pending) ==
    [s \in Sessions |->
        IF s = mounted \/ \E i \in 1..Len(pending) : pending[i].sid = s
        THEN c[s] ELSE 0]

\* The record of a completeSession call by session s with closure values
CallRecord(s, success, updateCard, correct, incorrect, mistakes) ==
    [sid |-> s, success |-> success,
     updateCard |-> updateCard, correctCount |-> correct,
     incorrectCount |-> incorrect, mistakes |-> MistakesToPersist(mistakes),
     accepted |-> hist[s].accepted, rejected |-> hist[s].rejected,
     errIdx |-> hist[s].errIdx, loaded |-> hist[s].loaded,
     afterExit |-> hist[s].exited, board |-> chess[s]]

\* ----------------------------------------------------------------- actions
\* Date.now() advances.  Time is counted in days and a session lasts
\* seconds, so a day passes only while no session is mounted and no timer
\* is pending.
Tick ==
    /\ UNCHANGED parserVars
    /\ now < MaxNow
    /\ cur = 0
    /\ timers = << >>
    /\ now' = now + 1
    /\ event' = "tick"
    /\ lastCall' = NoCall
    /\ UNCHANGED <<repertoires, attempts, cur, chess, timers, startTimer, replay,
                   react, hist>>

\* mount, loadSession and loadCard
loadSession ==
    /\ UNCHANGED parserVars
    /\ cur = 0
    \* a fresh component instance: an id no pending timer refers to
    /\ LET free == {x \in Sessions : \A i \in 1..Len(timers) : timers[i].sid # x}
           s == CHOOSE x \in free : \A y \in free : x <= y
           k == getRepertoireIndex(repertoires, RepId)
           card == StoredCard(repertoires)
       IN /\ k > 0
          /\ cur' = s
          /\ chess' = [chess EXCEPT ![s] = card.startFen]
          /\ currentCard' = card
          /\ boardPosition' = card.startFen
          /\ currentMoveIndex' = 0
          /\ errorCount' = 0
          /\ showFeedback' = FALSE
          /\ selectedSquare' = FALSE
          /\ moveMistakes' = LoadMistakes(card)
          /\ sessionCorrect' = 0
          /\ sessionIncorrect' = 0
          /\ isAutoPlaying' = FALSE
          /\ startTimer' = TRUE
          /\ replay' = NoReplay
          /\ hist' = [hist EXCEPT ![s] = [NoHist EXCEPT !.loaded = card.mistakeIndices]]
    /\ event' = "loadSession"
    /\ lastCall' = NoCall
    /\ UNCHANGED <<repertoires, now, timers, attempts>>


\* autoPlayToFirstMistake: one pass of the while loop, up to its await or
\* to its end (the loop condition failing or the oracle rejecting the move)
ReplayIteration(moveIdx, first) ==
    IF moveIdx < first /\ ChessMoveOk(chess[cur], SanAt(currentCard, moveIdx))
    THEN /\ chess' = [chess EXCEPT ![cur] = @ + 1]
         /\ boardPosition' = chess[cur] + 1
         /\ currentMoveIndex' = moveIdx + 1
         /\ isAutoPlaying' = TRUE
         /\ replay' = [active |-> TRUE, moveIdx |-> moveIdx, first |-> first]
         /\ event' = "autoPlayMove"
    ELSE /\ isAutoPlaying' = FALSE
         /\ replay' = NoReplay
         /\ event' = "autoPlayDone"
         /\ UNCHANGED <<chess, boardPosition, currentMoveIndex>>

\* the 500 ms timer of loadCard fires: autoPlayToFirstMistake(card, mistakes)
autoPlayToFirstMistake ==
    /\ UNCHANGED parserVars
    /\ cur # 0
    /\ startTimer
    /\ startTimer' = FALSE
    /\ LET first == FirstMistakeIndex(currentCard, LoadMistakes(currentCard))
       IN IF first = -1
          THEN /\ isAutoPlaying' = FALSE
               /\ replay' = NoReplay
               /\ event' = "autoPlayDone"
               /\ UNCHANGED <<chess, boardPosition, currentMoveIndex>>
          ELSE ReplayIteration(0, first)
    /\ UNCHANGED <<repertoires, now, attempts, cur, timers, currentCard,
                   sessionCorrect, sessionIncorrect, selectedSquare,
                   errorCount, showFeedback, moveMistakes, hist>>
    /\ lastCall' = NoCall

\* the 1000 ms await of autoPlayToFirstMistake ends: moveIdx++ and the next
\* pass.  Every pending playOpponentMoves timer was set before this session
\* was 800 ms old, so it has fired before the first await (1500 ms) ends.
autoPlayResume ==
    /\ UNCHANGED parserVars
    /\ cur # 0
    /\ replay.active
    /\ timers = << >>
    /\ ReplayIteration(replay.moveIdx + 1, replay.first)
    /\ UNCHANGED <<repertoires, now, attempts, cur, timers, startTimer,
                   currentCard, sessionCorrect, sessionIncorrect,
                   selectedSquare, errorCount, showFeedback, moveMistakes,
                   hist>>
    /\ lastCall' = NoCall

\* handleSquareClick: chess.move({from, to}) succeeds; exp is the notation
\* of the expected move, which the entered move is compared with
Legal(input, board, exp) ==
    CASE input = "expected" -> Turn(board) = "w" /\ ChessMoveOk(board, exp)
      [] input = "other" -> Turn(board) = "w"
      [] OTHER -> FALSE

VerdictIllegalIsWrong(input, board, exp) ==
    IF ~Legal(input, board, exp) THEN "incorrect"
    ELSE IF input = "expected" THEN "correct"
    ELSE "incorrect"

\* handleSquareClick: what the second click leads to
Verdict(input, board, exp) ==
    IF ~Legal(input, board, exp) THEN "ignored"
    ELSE IF input = "expected" THEN "correct"
    ELSE "incorrect"

MistakesNotRecorded(mistakes, exp) == mistakes

MistakesRecordedOnReply(mistakes, exp) ==
    IF exp # NoMove THEN mistakes \cup {exp + 1} ELSE mistakes

\* handleIncorrectMove: the new session mistake set
MistakesAfterIncorrect(mistakes, exp) ==
    IF exp # NoMove THEN mistakes \cup {exp} ELSE mistakes

\* handleIncorrectMove: the new per-move error counter
ErrorCountAfterIncorrect(n) == n + 1

\* displayAnnotations: the error hint drawn for the expected move: 0 none,
\* 1 the origin square, 2 the origin square and the arrow.  The squares come
\* from playing the expected move on a copy of the board.
HintLevel(card, idx, board, feedback, errors) ==
    LET exp == currentExpectedMove(card, idx)
    IN IF exp # NoMove /\ feedback /\ errors > 0
       THEN IF ~ChessMoveOk(board, SanAt(card, exp)) THEN 0
            ELSE IF errors >= 2 THEN 2
            ELSE 1
       ELSE 0

Inputs == {"select", "deselect", "expected", "other", "illegal"}

handleSquareClick ==
    /\ UNCHANGED parserVars
    /\ cur # 0
    /\ LET exp == currentExpectedMove(currentCard, currentMoveIndex)
           board == chess[cur]
           san == SanAt(currentCard, exp)
       IN /\ exp # NoMove
          /\ ~isAutoPlaying
          /\ \E input \in Inputs :
               IF input = "select"
               THEN /\ ~selectedSquare
                    /\ selectedSquare' = TRUE
                    /\ event' = "select"
                    /\ UNCHANGED <<chess, timers, boardPosition, sessionCorrect,
                                   sessionIncorrect, errorCount, showFeedback,
                                   moveMistakes, hist, attempts>>
               ELSE IF input = "deselect"
               THEN /\ selectedSquare
                    /\ selectedSquare' = FALSE
                    /\ event' = "deselect"
                    /\ UNCHANGED <<chess, timers, boardPosition, sessionCorrect,
                                   sessionIncorrect, errorCount, showFeedback,
                                   moveMistakes, hist, attempts>>
               ELSE /\ selectedSquare
                    /\ selectedSquare' = FALSE
                    /\ event' = IF ~Legal(input, board, san) THEN "illegalMove"
                                ELSE IF input = "expected" THEN "expectedMove"
                                ELSE "otherMove"
                    /\ LET v == Verdict(input, board, san)
                       IN IF v = "correct"
                          THEN \* handleCorrectMove
                               /\ attempts < MaxAttempts
                               /\ attempts' = attempts + 1
                               /\ chess' = [chess EXCEPT ![cur] = board + 1]
                               /\ boardPosition' = board + 1
                               /\ showFeedback' = TRUE
                               /\ sessionCorrect' = sessionCorrect + 1
                               /\ errorCount' = 0
                               /\ timers' = Append(timers,
                                    [sid |-> cur,
                                     currentCard |-> currentCard,
                                     currentMoveIndex |-> currentMoveIndex,
                                     sessionCorrect |-> sessionCorrect,
                                     sessionIncorrect |-> sessionIncorrect,
                                     moveMistakes |-> moveMistakes])
                               /\ hist' = [hist EXCEPT ![cur].accepted = @ + 1]
                               /\ UNCHANGED <<sessionIncorrect, moveMistakes>>
                          ELSE IF v = "incorrect"
                          THEN \* chess.undo() and handleIncorrectMove
                               /\ attempts < MaxAttempts
                               /\ attempts' = attempts + 1
                               /\ errorCount' = ErrorCountAfterIncorrect(errorCount)
                               /\ showFeedback' = TRUE
                               /\ sessionIncorrect' = sessionIncorrect + 1
                               /\ moveMistakes' = MistakesAfterIncorrect(moveMistakes, exp)
                               /\ hist' = [hist EXCEPT ![cur].rejected = @ + 1,
                                                       ![cur].errIdx = @ \cup {exp}]
                               /\ UNCHANGED <<chess, timers, boardPosition,
                                              sessionCorrect>>
                          ELSE UNCHANGED <<chess, timers, boardPosition,
                                           sessionCorrect, sessionIncorrect,
                                           errorCount, showFeedback,
                                           moveMistakes, hist, attempts>>
    /\ lastCall' = NoCall
    /\ UNCHANGED <<repertoires, now, cur, startTimer, replay,
                   currentCard, currentMoveIndex, isAutoPlaying>>

\* the 800 ms timer of handleCorrectMove fires: playOpponentMoves run with the
\* values of the render in which the move was accepted.  Timers of equal
\* delay fire in the order they were set; the timer of the mounted session
\* was set after its loadCard, so the 500 ms timer has fired before it.
playOpponentMoves ==
    /\ UNCHANGED parserVars
    /\ timers # << >>
    /\ LET t == Head(timers)
           s == t.sid
           card == t.currentCard
           r == PlayBlack(card, FirstOpponentIndex(t.currentMoveIndex), chess[s])
       IN /\ (s = cur => ~startTimer)
          /\ timers' = Tail(timers)
          /\ chess' = AliveChess([chess EXCEPT ![s] = r.board],
                                  IF r.nextIndex >= NumMoves(card) THEN 0 ELSE cur,
                                  Tail(timers))
          /\ IF r.nextIndex >= NumMoves(card)
             THEN \* setMoveMistakes(new Set()) when the closure's
                  \* sessionIncorrect is 0 only schedules a state update;
                  \* completeSession(true) reads the closure's moveMistakes,
                  \* then navigate() unmounts the mounted session
                  /\ repertoires' = completeSession(repertoires, card,
                        t.moveMistakes, t.sessionCorrect, t.sessionIncorrect,
                        TRUE, TRUE, now)
                  /\ lastCall' = [CallRecord(s, TRUE, TRUE, t.sessionCorrect,
                                             t.sessionIncorrect, t.moveMistakes)
                                     EXCEPT !.board = r.board]
                  /\ cur' = 0
                  /\ Unmounted
                  /\ event' = "lineComplete"
             ELSE /\ event' = "opponentPlayed"
                  /\ lastCall' = NoCall
                  /\ UNCHANGED <<repertoires, cur, startTimer, replay,
                                 currentCard, sessionCorrect, sessionIncorrect,
                                 selectedSquare, errorCount, isAutoPlaying,
                                 moveMistakes>>
                  /\ IF s = cur
                     THEN /\ boardPosition' = r.board
                          /\ currentMoveIndex' = r.nextIndex
                          /\ showFeedback' = FALSE
                     ELSE UNCHANGED <<boardPosition, currentMoveIndex,
                                      showFeedback>>
    /\ hist' = Alive(hist, cur', timers')
    /\ UNCHANGED <<now, attempts>>

\* the Back button: completeSession(false, false) of the current render
handleExit ==
    /\ UNCHANGED parserVars
    /\ cur # 0
    /\ currentExpectedMove(currentCard, currentMoveIndex) # NoMove
    /\ repertoires' = completeSession(repertoires, currentCard, moveMistakes,
                         sessionCorrect, sessionIncorrect, FALSE, FALSE, now)
    /\ lastCall' = CallRecord(cur, FALSE, FALSE, sessionCorrect,
                              sessionIncorrect, moveMistakes)
    /\ hist' = Alive([hist EXCEPT ![cur].exited = TRUE], 0, timers)
    /\ cur' = 0
    /\ Unmounted
    /\ event' = "exit"
    /\ chess' = AliveChess(chess, 0, timers)
    /\ UNCHANGED <<now, attempts, timers>>

Next ==
    \/ Tick
    \/ loadSession
    \/ autoPlayToFirstMistake
    \/ autoPlayResume
    \/ handleSquareClick
    \/ playOpponentMoves
    \/ handleExit

Spec == Init /\ [][Next]_vars

\* The timers of the browser fire; the user, whenever a move is awaited,
\* eventually selects a piece and eventually enters the expected move.
Fairness ==
    /\ WF_vars(autoPlayToFirstMistake)
    /\ WF_vars(autoPlayResume)
    /\ WF_vars(playOpponentMoves)
    /\ SF_vars(handleSquareClick /\ event' = "select")
    /\ SF_vars(handleSquareClick /\ event' = "expectedMove")

LiveSpec == Init /\ [][Next]_vars /\ Fairness

\* ---------------------------------------------------- the scheduler alone
\* a stored line in an arbitrary scheduling state
CardInState(ef, interval, reps) ==
    [NewCard(1, 0) EXCEPT !.easinessFactor = ef, !.interval = interval,
                          !.repetitions = reps]

SchedInit ==
    \E ef \in MinEF..(InitialEF + MaxReps) :
      \E interval \in 0..MaxInterval : \E reps \in 0..MaxReps :
        Boot(<< CardInState(ef, interval, reps) >>)

\* completeSession with updateCard = true, seen from the stored line: the
\* outcome is scheduled and the result is written to the line
schedule ==
    /\ UNCHANGED parserVars
    /\ \E success \in BOOLEAN :
         LET card == StoredCard(repertoires)
         IN /\ card.interval <= MaxInterval
            /\ card.repetitions < MaxReps
            /\ repertoires' = updateFlashcard(repertoires, RepId,
                  UpdatedCard(card, card.mistakeIndices, success, TRUE, now))
            /\ event' = IF success THEN "scheduleCorrect"
                        ELSE "scheduleIncorrect"
    /\ UNCHANGED <<now, attempts, cur, chess, timers, startTimer, replay,
                   react, hist, lastCall>>

SchedSpec == SchedInit /\ [][schedule]_vars

\* -------------------------------------------------------------- the parser
\* A PGN text of one game is a sequence of tokens: a move, a comment in
\* braces, and the parentheses of a variation.  A comment is identified by
\* its position in the text.
Tokens == {"move", "comment", "open", "close"}

\* nesting depth of the parentheses before token i
Depth(text, i) ==
    Cardinality({j \in 1..(i - 1) : text[j] = "open"})
      - Cardinality({j \in 1..(i - 1) : text[j] = "close"})

Balanced(text) ==
    /\ \A i \in 1..Len(text) : Depth(text, i) >= 0
    /\ \A i \in 1..Len(text) : text[i] = "close" => Depth(text, i) >= 1
    /\ Depth(text, Len(text) + 1) = 0

\* the texts typed in: well-formed, of bounded length
Texts ==
    {text \in UNION {[1..n -> Tokens] : n \in 1..MaxTokens} : Balanced(text)}

\* the elements of a set of numbers in ascending order
Sorted(S) ==
    [k \in 1..Cardinality(S) |->
        CHOOSE x \in S : Cardinality({y \in S : y < x}) = k - 1]

\* chess.loadPgn and chess.history: the moves of the mainline, variations
\* dropped, as positions in the text
History(text) ==
    Sorted({i \in 1..Len(text) : text[i] = "move" /\ Depth(text, i) = 0})

\* extractComments: every {...} of the text, in order
extractComments(pgn) == Sorted({i \in 1..Len(pgn) : pgn[i] = "comment"})

\* extractCompleteLine: move i of the history gets comment i of the text
extractCompleteLine(gameText) ==
    LET history == History(gameText)
        comments == extractComments(gameText)
    IN [i \in 1..Len(history) |->
          [san |-> i - 1,
           color |-> IF i % 2 = 1 THEN "w" ELSE "b",
           comment |-> IF i <= Len(comments) THEN comments[i]
                       ELSE NoComment]]

\* parsePGNToFlashcards, for a text of one game
parsePGNToFlashcards(pgnContent, t) ==
    LET moves == extractCompleteLine(pgnContent)
    IN IF Len(moves) = 0 THEN << >>
       ELSE << [NewCard(Len(moves), t) EXCEPT !.moves = moves] >>

ParseInit ==
    /\ repertoires = << >>
    /\ pgnText \in Texts
    /\ NoFile
    /\ NoMarkup
    /\ Idle

\* handleTextSubmit and processPGNContent
handleTextSubmit ==
    /\ pgnText # << >>
    /\ LET flashcards == parsePGNToFlashcards(pgnText, now)
       IN IF Len(flashcards) = 0
          THEN /\ event' = "importFailed"
               /\ UNCHANGED repertoires
          ELSE /\ event' = "import"
               /\ repertoires' = saveRepertoire(repertoires,
                                     NewRepertoire(flashcards, now))
    /\ pgnText' = << >>
    /\ UNCHANGED <<now, attempts, cur, chess, timers, startTimer, replay,
                   react, hist, lastCall, fileContent, games, rawComment,
                   parsedComment, storageCall>>

ParseSpec == ParseInit /\ [][handleTextSubmit]_vars

\* ------------------------------------------------------ the markup parser
\* A string is a sequence of characters.  A comment is held as the sequence
\* of its segments, each a literal piece of text; the parser works on the
\* characters of the whole comment and knows nothing of the segments.
Segments ==
    {"Good move!", " ", "[%csl Ra1,Gb2]", "[%cal Yb4a2]", "[%clk 1]",
     "[%csl Ra, GB2]", "[%cal Yb4,RA1B2]"}

Chars(segment) ==
    CASE segment = "Good move!" ->
           <<"G", "o", "o", "d", " ", "m", "o", "v", "e", "!">>
      [] segment = " " -> <<" ">>
      [] segment = "[%csl Ra1,Gb2]" ->
           <<"[", "%", "c", "s", "l", " ", "R", "a", "1", ",", "G", "b", "2",
             "]">>
      [] segment = "[%cal Yb4a2]" ->
           <<"[", "%", "c", "a", "l", " ", "Y", "b", "4", "a", "2", "]">>
      [] segment = "[%clk 1]" ->
           <<"[", "%", "c", "l", "k", " ", "1", "]">>
      [] segment = "[%csl Ra, GB2]" ->
           <<"[", "%", "c", "s", "l", " ", "R", "a", ",", " ", "G", "B", "2",
             "]">>
      [] segment = "[%cal Yb4,RA1B2]" ->
           <<"[", "%", "c", "a", "l", " ", "Y", "b", "4", ",", "R", "A", "1",
             "B", "2", "]">>

\* the characters of a text given by its segments
RECURSIVE Text(_)
Text(segments) ==
    IF segments = << >> THEN << >>
    ELSE Chars(Head(segments)) \o Text(Tail(segments))

\* \s of a regular expression
IsSpace(c) == c = " "

\* String.prototype.trim
trim(s) ==
    LET K == {i \in 1..Len(s) : ~IsSpace(s[i])}
    IN IF K = {} THEN << >>
       ELSE SubSeq(s, CHOOSE i \in K : \A j \in K : i <= j,
                      CHOOSE i \in K : \A j \in K : i >= j)

\* String.prototype.substring(from, to), 0-based, to exclusive
substring(s, from, to) ==
    SubSeq(s, from + 1, IF to < Len(s) THEN to ELSE Len(s))

\* String.prototype.toLowerCase
toLowerCase(s) ==
    [i \in 1..Len(s) |->
        CASE s[i] = "A" -> "a" [] s[i] = "B" -> "b" [] s[i] = "G" -> "g"
          [] s[i] = "R" -> "r" [] s[i] = "Y" -> "y" [] OTHER -> s[i]]

\* String.prototype.split(',')
RECURSIVE split(_)
split(s) ==
    LET K == {i \in 1..Len(s) : s[i] = ","}
    IN IF K = {} THEN << s >>
       ELSE LET k == CHOOSE i \in K : \A j \in K : i <= j
            IN << SubSeq(s, 1, k - 1) >> \o split(SubSeq(s, k + 1, Len(s)))

\* the text s has p at position i
StartsAt(s, i, p) ==
    /\ i + Len(p) - 1 <= Len(s)
    /\ \A k \in 1..Len(p) : s[i + k - 1] = p[k]

\* /\[%word\s+([^\]]+)\]/ tried at position i: the position of the closing
\* bracket of the match, 0 when there is no match at i
MatchEnd(s, i, word) ==
    LET a == i + 2 + Len(word)
        C == {j \in a..Len(s) : s[j] = "]"}
    IN IF /\ StartsAt(s, i, <<"[", "%">> \o word)
          /\ a <= Len(s)
          /\ IsSpace(s[a])
          /\ C # {}
       THEN LET e == CHOOSE j \in C : \A x \in C : j <= x
            IN IF e >= a + 2 THEN e ELSE 0
       ELSE 0

\* the group ([^\]]+) of the match at i: what follows the white space, or
\* the last blank when nothing follows it
Group(s, i, word) ==
    LET a == i + 2 + Len(word)
        e == MatchEnd(s, i, word)
        N == {j \in a..(e - 1) : ~IsSpace(s[j])}
    IN IF N = {} THEN SubSeq(s, e - 1, e - 1)
       ELSE SubSeq(s, CHOOSE j \in N : \A x \in N : j <= x, e - 1)

\* while ((m = regex.exec(comment)) !== null): the matches from left to right
RECURSIVE DirectiveMatches(_, _, _)
DirectiveMatches(s, from, word) ==
    LET M == {i \in from..Len(s) : MatchEnd(s, i, word) # 0}
    IN IF M = {} THEN << >>
       ELSE LET i == CHOOSE x \in M : \A y \in M : x <= y
            IN << [start |-> i, end |-> MatchEnd(s, i, word),
                   group |-> Group(s, i, word)] >>
                 \o DirectiveMatches(s, MatchEnd(s, i, word) + 1, word)

RECURSIVE RemoveSpans(_, _, _)
RemoveSpans(s, ms, from) ==
    IF ms = << >> THEN SubSeq(s, from, Len(s))
    ELSE SubSeq(s, from, Head(ms).start - 1)
           \o RemoveSpans(s, Tail(ms), Head(ms).end + 1)

\* comment.replace(/\[%word\s+[^\]]+\]/g, '')
RemoveDirectives(s, word) == RemoveSpans(s, DirectiveMatches(s, 1, word), 1)

csl == <<"c", "s", "l">>
cal == <<"c", "a", "l">>

RECURSIVE SquaresOfAnyLength(_)
SquaresOfAnyLength(tokens) ==
    IF tokens = << >> THEN << >>
    ELSE LET trimmed == trim(Head(tokens))
         IN << [square |-> toLowerCase(substring(trimmed, 1, Len(trimmed))),
                color |-> trimmed[1]] >> \o SquaresOfAnyLength(Tail(tokens))

\* the loop over the tokens of one [%csl ...] directive
RECURSIVE SquaresOf(_)
SquaresOf(tokens) ==
    IF tokens = << >> THEN << >>
    ELSE LET trimmed == trim(Head(tokens))
         IN (IF Len(trimmed) >= 3
             THEN << [square |-> toLowerCase(
                                   substring(trimmed, 1, Len(trimmed))),
                      color |-> trimmed[1]] >>
             ELSE << >>) \o SquaresOf(Tail(tokens))

\* the loop over the tokens of one [%cal ...] directive
RECURSIVE ArrowsOf(_)
ArrowsOf(tokens) ==
    IF tokens = << >> THEN << >>
    ELSE LET trimmed == trim(Head(tokens))
         IN (IF Len(trimmed) >= 5
             THEN << [from |-> toLowerCase(substring(trimmed, 1, 3)),
                      to |-> toLowerCase(substring(trimmed, 3, 5)),
                      color |-> trimmed[1]] >>
             ELSE << >>) \o ArrowsOf(Tail(tokens))

RECURSIVE AllSquares(_)
AllSquares(ms) ==
    IF ms = << >> THEN << >>
    ELSE SquaresOf(split(Head(ms).group)) \o AllSquares(Tail(ms))

RECURSIVE AllArrows(_)
AllArrows(ms) ==
    IF ms = << >> THEN << >>
    ELSE ArrowsOf(split(Head(ms).group)) \o AllArrows(Tail(ms))

parseCommentMarkup(comment) ==
    [cleanText |-> trim(RemoveDirectives(RemoveDirectives(comment, csl), cal)),
     highlightedSquares |-> AllSquares(DirectiveMatches(comment, 1, csl)),
     arrows |-> AllArrows(DirectiveMatches(comment, 1, cal))]

\* the comments handed in: up to MaxSegments segments
MarkupInit ==
    /\ repertoires = << >>
    /\ pgnText = << >>
    /\ NoFile
    /\ rawComment \in UNION {[1..n -> Segments] : n \in 0..MaxSegments}
    /\ parsedComment = NoParsed
    /\ Idle

\* extractCompleteLine: parsedComment = parseCommentMarkup(comments[i])
parseComment ==
    /\ parsedComment' = parseCommentMarkup(Text(rawComment))
    /\ event' = "parseComment"
    /\ UNCHANGED <<repertoires, now, attempts, cur, chess, timers, startTimer,
                   replay, react, hist, lastCall, pgnText, fileContent, games,
                   rawComment, storageCall>>

MarkupSpec == MarkupInit /\ [][parseComment]_vars

\* ---------------------------------------------------- the parser on a file
\* The text of a PGN file is held as its lines (the pieces between line
\* breaks), a line as its tokens: a header [Key "Value"], a move, the braces
\* of a comment and, inside a comment, prose ("word", "essay" for prose of
\* 100 characters or more) and a [%csl ...] directive.  The notation of a
\* move is the position of its game it is played in, NoMove for a text the
\* oracle accepts nowhere.
Header(key, value) ==
    [kind |-> "header", key |-> key, value |-> value, san |-> NoMove]
MoveToken(k) == [kind |-> "move", key |-> "", value |-> "", san |-> k]
Sym(kind) == [kind |-> kind, key |-> "", value |-> "", san |-> NoMove]

\* line.trim().startsWith('[Event')
StartsWithEvent(line) ==
    /\ line # << >>
    /\ line[1].kind = "header"
    /\ line[1].key \in {"Event", "EventDate"}

\* !currentGame.trim(): the buffer holds white space only
BlankGame(game) == \A i \in 1..Len(game) : game[i] = << >>

RECURSIVE SplitAtEveryEvent(_, _, _)
SplitAtEveryEvent(lines, found, currentGame) ==
    IF lines = << >>
    THEN IF ~BlankGame(currentGame) THEN Append(found, currentGame)
         ELSE found
    ELSE IF StartsWithEvent(Head(lines))
    THEN SplitAtEveryEvent(Tail(lines), Append(found, currentGame),
                           << Head(lines) >>)
    ELSE SplitAtEveryEvent(Tail(lines), found,
                           Append(currentGame, Head(lines)))

\* splitPGNGames: the loop over the lines and the push after it
RECURSIVE SplitLoop(_, _, _)
SplitLoop(lines, found, currentGame) ==
    IF lines = << >>
    THEN IF ~BlankGame(currentGame) THEN Append(found, currentGame)
         ELSE found
    ELSE IF StartsWithEvent(Head(lines)) /\ ~BlankGame(currentGame)
    THEN SplitLoop(Tail(lines), Append(found, currentGame), << Head(lines) >>)
    ELSE SplitLoop(Tail(lines), found, Append(currentGame, Head(lines)))

\* games.filter(g => g.trim().length > 0)
RECURSIVE NonBlankGames(_)
NonBlankGames(gs) ==
    IF gs = << >> THEN << >>
    ELSE (IF BlankGame(Head(gs)) THEN << >> ELSE << Head(gs) >>)
           \o NonBlankGames(Tail(gs))

splitPGNGames(pgnContent) == NonBlankGames(SplitLoop(pgnContent, << >>, << >>))

\* the token starts with [ and ends with ]
Bracketed(tok) == tok.kind \in {"header", "directive"}

\* the tokens of a text given by its lines, every line followed by "nl"
RECURSIVE Flat(_)
Flat(lines) ==
    IF lines = << >> THEN << >>
    ELSE Head(lines) \o << Sym("nl") >> \o Flat(Tail(lines))

\* gameText.replace(/\[.*?\]\n/g, '') on one line: when the line ends with a
\* closing bracket, the match runs from the first opening bracket of the
\* line to its line break (the dot matches no line break)
StripLine(line) ==
    IF line # << >> /\ Bracketed(line[Len(line)])
    THEN LET B == {i \in 1..Len(line) : Bracketed(line[i])}
         IN SubSeq(line, 1, (CHOOSE i \in B : \A j \in B : i <= j) - 1)
    ELSE line \o << Sym("nl") >>

RECURSIVE StripLines(_)
StripLines(lines) ==
    IF lines = << >> THEN << >>
    ELSE StripLine(Head(lines)) \o StripLines(Tail(lines))

\* trim() of a text of tokens: line breaks at its ends go
TrimTokens(text) ==
    LET K == {i \in 1..Len(text) : text[i].kind # "nl"}
    IN IF K = {} THEN << >>
       ELSE SubSeq(text, CHOOSE i \in K : \A j \in K : i <= j,
                         CHOOSE i \in K : \A j \in K : i >= j)

\* extractCompleteLine: pgnWithoutHeaders
pgnWithoutHeaders(gameText) == TrimTokens(StripLines(gameText))

\* chess.loadPgn(text) and chess.history(): a comment runs from { to the
\* next }; outside comments every token must be a move the position accepts;
\* ok is FALSE when loadPgn throws
RECURSIVE LoadLoop(_, _, _, _)
LoadLoop(text, inComment, board, history) ==
    IF text = << >> THEN [ok |-> ~inComment, history |-> history]
    ELSE LET tok == Head(text)
         IN IF inComment
            THEN LoadLoop(Tail(text), tok.kind # "}", board, history)
            ELSE IF tok.kind = "{"
            THEN LoadLoop(Tail(text), TRUE, board, history)
            ELSE IF tok.kind \in {"nl", "header"}
            THEN LoadLoop(Tail(text), FALSE, board, history)
            ELSE IF tok.kind = "move" /\ ChessMoveOk(board, tok.san)
            THEN LoadLoop(Tail(text), FALSE, board + 1,
                          Append(history, tok.san))
            ELSE [ok |-> FALSE, history |-> << >>]

loadPgn(text) == LoadLoop(text, FALSE, 0, << >>)

\* the matches of /\{([^}]+)\}/g: what stands between a { and the next },
\* when it is not empty
RECURSIVE CommentLoop(_, _, _, _)
CommentLoop(text, inComment, current, found) ==
    IF text = << >> THEN found
    ELSE LET tok == Head(text)
         IN IF inComment
            THEN IF tok.kind = "}"
                 THEN IF current = << >>
                      THEN CommentLoop(Tail(text), FALSE, << >>, found)
                      ELSE CommentLoop(Tail(text), FALSE, << >>,
                                       Append(found, current))
                 ELSE CommentLoop(Tail(text), TRUE, Append(current, tok),
                                  found)
            ELSE CommentLoop(Tail(text), tok.kind = "{", << >>, found)

\* extractComments on the tokens: comments.push(match[1].trim())
GameComments(text) ==
    LET raw == CommentLoop(text, FALSE, << >>, << >>)
    IN [i \in 1..Len(raw) |-> TrimTokens(raw[i])]

\* the text without its directives
RECURSIVE WithoutDirectives(_)
WithoutDirectives(text) ==
    IF text = << >> THEN << >>
    ELSE (IF Head(text).kind = "directive" THEN << >> ELSE << Head(text) >>)
           \o WithoutDirectives(Tail(text))

\* parseCommentMarkup(comment).cleanText on the tokens
cleanTextOf(comment) == TrimTokens(WithoutDirectives(comment))

\* extractCompleteLine on the lines of one game: the comment of a move is a
\* sequence, empty when parsedComment is undefined
GameLine(gameText) ==
    LET text == pgnWithoutHeaders(gameText)
        loaded == loadPgn(text)
        history == loaded.history
        comments == GameComments(text)
    IN IF ~loaded.ok THEN << >>
       ELSE [i \in 1..Len(history) |->
               [san |-> history[i],
                color |-> Turn(i - 1),
                comment |-> IF i <= Len(comments)
                            THEN << cleanTextOf(comments[i]) >>
                            ELSE << >>]]

\* gameText.match(/\[Key\s+"([^"]+)"\]/): the first header with that key
\* and a value of at least one character, as a sequence of at most one token
FirstHeader(gameText, key) ==
    LET text == Flat(gameText)
        K == {i \in 1..Len(text) :
                /\ text[i].kind = "header"
                /\ text[i].key = key
                /\ text[i].value # ""}
    IN IF K = {} THEN << >>
       ELSE << text[CHOOSE i \in K : \A j \in K : i <= j] >>

\* the values a header is given: none, the placeholder, a blank, a name,
\* and a text with move numbers
HeaderValues == {"", "?", " ", "Italian", "1. e4 e5"}

\* value.trim()
TrimValue(value) == IF value = " " THEN "" ELSE value

\* /\d+\.|\.\.\./.test(value)
looksLikeMoves(value) == value = "1. e4 e5"

headerPriority ==
    <<"Event", "Opening", "Variation", "ECO", "Site", "Annotator", "White",
      "Black">>

\* the loop over headerPriority from position k on: the value returned, as
\* a sequence of at most one value
RECURSIVE HeaderLoop(_, _)
HeaderLoop(gameText, k) ==
    IF k > Len(headerPriority) THEN << >>
    ELSE LET match == FirstHeader(gameText, headerPriority[k])
         IN IF /\ match # << >>
               /\ match[1].value # "?"
               /\ TrimValue(match[1].value) # ""
            THEN << match[1].value >>
            ELSE HeaderLoop(gameText, k + 1)

\* the first line of a comment: split('\n')[0]
FirstLine(comment) ==
    LET K == {i \in 1..Len(comment) : comment[i].kind = "nl"}
    IN IF K = {} THEN comment
       ELSE SubSeq(comment, 1, (CHOOSE i \in K : \A j \in K : i <= j) - 1)

\* the name taken from the first comment of the game, none when the cleaned
\* first line is empty or has 100 characters or more
CommentName(gameText) ==
    LET found == CommentLoop(Flat(gameText), FALSE, << >>, << >>)
    IN IF found = << >> THEN << >>
       ELSE LET cleaned == cleanTextOf(TrimTokens(FirstLine(found[1])))
            IN IF /\ cleaned # << >>
                  /\ \A i \in 1..Len(cleaned) : cleaned[i].kind # "essay"
               THEN [i \in 1..Len(cleaned) |-> cleaned[i].kind]
               ELSE << >>

\* extractLineName: the name as a sequence of texts, empty for undefined
extractLineName(gameText) ==
    LET whiteMatch == FirstHeader(gameText, "White")
        blackMatch == FirstHeader(gameText, "Black")
        whitePart == TrimValue(whiteMatch[1].value)
        blackPart == TrimValue(blackMatch[1].value)
    IN IF /\ whiteMatch # << >>
          /\ blackMatch # << >>
          /\ looksLikeMoves(whitePart) \/ looksLikeMoves(blackPart)
          /\ whitePart # "?"
          /\ blackPart # "?"
       THEN << whitePart, " - ", blackPart >>
       ELSE IF HeaderLoop(gameText, 1) # << >> THEN HeaderLoop(gameText, 1)
       ELSE CommentName(gameText)

\* uuidv4(): the k-th identifier drawn
CardIdOf(k) ==
    CASE k = 1 -> CardId [] k = 2 -> "c2" [] k = 3 -> "c3" [] k = 4 -> "c4"
      [] k = 5 -> "c5" [] OTHER -> "c6"

\* parsePGNToFlashcards: the loop over the games
RECURSIVE CardLoop(_, _, _)
CardLoop(gs, flashcards, t) ==
    IF gs = << >> THEN flashcards
    ELSE LET moves == GameLine(Head(gs))
         IN IF Len(moves) = 0 THEN CardLoop(Tail(gs), flashcards, t)
            ELSE CardLoop(Tail(gs),
                   Append(flashcards,
                     [NewCard(Len(moves), t)
                        EXCEPT !.id = CardIdOf(Len(flashcards) + 1),
                               !.moves = moves,
                               !.name = extractLineName(Head(gs))]),
                   t)

\* parsePGNToFlashcards on the lines of a file
parsePGNFile(pgnContent, t) == CardLoop(splitPGNGames(pgnContent), << >>, t)

\* the lines a file is made of
FileLines ==
    { << Header("Event", "Italian") >>,
      << >>,
      << MoveToken(0), MoveToken(1) >>,
      << MoveToken(2) >>,
      << MoveToken(0), Sym("{"), Sym("directive"), Sym("}"), MoveToken(1),
         Sym("{"), Sym("directive") >>,
      << Sym("word"), Sym("}"), MoveToken(2) >>,
      << MoveToken(0), MoveToken(NoMove) >> }

FileInit ==
    /\ repertoires = << >>
    /\ pgnText = << >>
    /\ fileContent \in UNION {[1..n -> FileLines] : n \in 1..MaxLines}
    /\ games = << >>
    /\ NoMarkup
    /\ Idle

\* handleFileUpload and processPGNContent
handleFileUpload ==
    /\ fileContent # << >>
    /\ games' = splitPGNGames(fileContent)
    /\ LET flashcards == parsePGNFile(fileContent, now)
       IN IF Len(flashcards) = 0
          THEN /\ event' = "uploadFailed"
               /\ UNCHANGED repertoires
          ELSE /\ event' = "upload"
               /\ repertoires' = saveRepertoire(repertoires,
                                     NewRepertoire(flashcards, now))
    /\ fileContent' = << >>
    /\ UNCHANGED <<now, attempts, cur, chess, timers, startTimer, replay,
                   react, hist, lastCall, pgnText, rawComment, parsedComment,
                   storageCall>>

FileSpec == FileInit /\ [][handleFileUpload \/ Tick]_vars

\* the header line of a key, no line when the header is absent
HeaderLine(key, value) ==
    IF value = "absent" THEN << >> ELSE << << Header(key, value) >> >>

\* the move texts of the games that are named: without a comment, with a
\* comment of prose, of a directive, of a directive and prose, of prose of
\* 100 characters, with a comment that starts with a line break, and with
\* two comments
NamedBodies ==
    { << << MoveToken(0) >> >>,
      << << MoveToken(0), Sym("{"), Sym("word"), Sym("}") >> >>,
      << << MoveToken(0), Sym("{"), Sym("directive"), Sym("}") >> >>,
      << << MoveToken(0), Sym("{"), Sym("directive"), Sym("word"),
            Sym("}") >> >>,
      << << MoveToken(0), Sym("{"), Sym("essay"), Sym("}") >> >>,
      << << MoveToken(0), Sym("{") >>, << Sym("word"), Sym("}") >> >>,
      << << MoveToken(0), Sym("{"), Sym("directive"), Sym("}"), MoveToken(1),
            Sym("{"), Sym("word"), Sym("}") >> >> }

\* a file of one game with any headers Event, Site, White and Black
NameInit ==
    /\ repertoires = << >>
    /\ pgnText = << >>
    /\ \E ev, site, white, black \in HeaderValues \cup {"absent"} :
         \E body \in NamedBodies :
           fileContent = HeaderLine("Event", ev) \o HeaderLine("Site", site)
                           \o HeaderLine("White", white)
                           \o HeaderLine("Black", black) \o body
    /\ games = << >>
    /\ NoMarkup
    /\ Idle

NameSpec == NameInit /\ [][handleFileUpload]_vars

\* ------------------------------------------------------ the lines due
\* a repertoire of MaxCards lines, each with its own next review date
DueInit ==
    \E dates \in [1..MaxCards -> 0..(MaxNow + 1)] :
        Boot([k \in 1..MaxCards |->
                [NewCard(1, dates[k]) EXCEPT !.id = CardIdOf(k)]])

\* the days pass and the first line is reviewed and scheduled again
DueSpec == DueInit /\ [][Tick \/ schedule]_vars

\* ------------------------------------------------ the aggregate counters
\* a repertoire as processPGNContent creates it, with zeroed counters
StatsInit == Boot(<< NewCard(1, 0) >>)

\* updateRepertoireStats called with any counts for the stored repertoire
updateStats ==
    /\ UNCHANGED parserVars
    /\ \E correctCount \in 0..MaxCount : \E incorrectCount \in 0..MaxCount :
         \E streakBroken \in BOOLEAN :
           /\ StoredStats(repertoires).totalReviews + correctCount
                + incorrectCount <= MaxReviews
           /\ repertoires' = updateRepertoireStats(repertoires, RepId,
                                correctCount, incorrectCount, streakBroken, now)
    /\ event' = "updateStats"
    /\ UNCHANGED <<now, attempts, cur, chess, timers, startTimer, replay,
                   react, hist, lastCall>>

StatsSpec == StatsInit /\ [][updateStats]_vars

\* an id no stored repertoire has
UnknownId == "r0"

\* ------------------------------------------------------ the storage calls
\* uuidv4(): the identifier of the k-th repertoire
RepIdOf(k) ==
    CASE k = 1 -> RepId [] k = 2 -> "r2" [] k = 3 -> "r3" [] OTHER -> "r4"

RepIds == {RepIdOf(k) : k \in 1..MaxRepertoires}

\* a line with identifier k; the interval tells a written line from a new one
StoreCard(k, interval) ==
    [NewCard(1, 0) EXCEPT !.id = CardIdOf(k), !.interval = interval]

\* the repertoires handed to saveRepertoire: no line, one line, two lines
SavedRepertoires ==
    {[NewRepertoire(cards, 0) EXCEPT !.id = id] :
        id \in RepIds,
        cards \in {<< >>, << StoreCard(1, 0) >>,
                   << StoreCard(1, 0), StoreCard(2, 0) >>}}

\* the lines handed to updateFlashcard
UpdatedCards == {StoreCard(k, 1) : k \in 1..2}

\* getStorageData on an empty localStorage: no repertoire
StoreInit ==
    /\ repertoires = << >>
    /\ pgnText = << >>
    /\ NoFile
    /\ NoMarkup
    /\ Idle

StoreFrame ==
    UNCHANGED <<now, attempts, cur, chess, timers, startTimer, replay, react,
                hist, lastCall, pgnText, fileContent, games, rawComment,
                parsedComment>>

callSaveRepertoire ==
    /\ \E repertoire \in SavedRepertoires :
         /\ Len(repertoires) < MaxRepertoires
              \/ getRepertoireIndex(repertoires, repertoire.id) > 0
         /\ repertoires' = saveRepertoire(repertoires, repertoire)
         /\ storageCall' = [NoStorageCall EXCEPT !.op = "save",
                                                 !.id = repertoire.id,
                                                 !.repertoire = repertoire]
    /\ event' = "saveRepertoire"
    /\ StoreFrame

callDeleteRepertoire ==
    /\ \E id \in RepIds :
         /\ repertoires' = deleteRepertoire(repertoires, id)
         /\ storageCall' = [NoStorageCall EXCEPT !.op = "delete", !.id = id]
    /\ event' = "deleteRepertoire"
    /\ StoreFrame

callUpdateFlashcard ==
    /\ \E repertoireId \in RepIds : \E flashcard \in UpdatedCards :
         /\ repertoires' = updateFlashcard(repertoires, repertoireId, flashcard)
         /\ storageCall' = [NoStorageCall EXCEPT !.op = "update",
                                                 !.id = repertoireId,
                                                 !.flashcard = flashcard]
    /\ event' = "updateFlashcard"
    /\ StoreFrame

StoreSpec ==
    StoreInit /\ [][callSaveRepertoire \/ callDeleteRepertoire
                      \/ callUpdateFlashcard]_vars

\* the same program started on storage that holds a faulty line
FaultSpec == FaultInit /\ [][Next]_vars

TypeOK ==
    /\ cur \in {0} \cup Sessions
    /\ attempts \in 0..MaxAttempts
    /\ \A s \in Sessions : chess[s] \in 0..MaxMoves


\* ------------------------------------------------------------ properties
SetMin(S) == CHOOSE m \in S : \A x \in S : m <= x

UserEvents == {"select", "deselect", "expectedMove", "otherMove", "illegalMove"}

\* first White index at or after position b, the line's length when none
NextUserIndex(card, b) ==
    IF \E i \in b..(NumMoves(card) - 1) : ColorAt(card, i) = "w"
    THEN SetMin({i \in b..(NumMoves(card) - 1) : ColorAt(card, i) = "w"})
    ELSE NumMoves(card)

\* C1: a line that reaches its end is handed to the scheduler as Correct
\* exactly when the session had no incorrect attempt, as Incorrect otherwise.
C1_CorrectOnlyWithoutMistakes ==
    (lastCall.sid # 0 /\ lastCall.updateCard) =>
        (CompletionQuality(lastCall.success) = 1 <=> lastCall.rejected = 0)

\* C2: once a session was left with the Back button, no completeSession call
\* of that session applies the SM-2 update to the stored line.
C2_NoSchedulerUpdateAfterExit ==
    ~(lastCall.sid # 0 /\ lastCall.updateCard /\ lastCall.afterExit)

\* C3: a completion by a session without incorrect attempts leaves the empty
\* mistake set on the stored line.
C3_CleanCompletionClearsMistakes ==
    (event = "lineComplete" /\ lastCall.rejected = 0) =>
        StoredCard(repertoires).mistakeIndices = {}

\* C4 (as stated): a completion by a session with incorrect attempts stores
\* exactly the indices that received an incorrect attempt in this session.
C4_OnlyThisSessionsMistakes ==
    (event = "lineComplete" /\ lastCall.rejected > 0) =>
        StoredCard(repertoires).mistakeIndices = lastCall.errIdx

\* C4 (amended): a completion by a session with incorrect attempts stores
\* the indices the line carried when the session was loaded together with
\* the indices that received an incorrect attempt in this session.
C4_LoadedAndThisSessionsMistakes ==
    (event = "lineComplete" /\ lastCall.rejected > 0) =>
        StoredCard(repertoires).mistakeIndices
            = lastCall.loaded \cup lastCall.errIdx

C4_Witness ==
    /\ event = "lineComplete"
    /\ lastCall.rejected > 0
    /\ ~(lastCall.loaded \subseteq lastCall.errIdx)

\* C5: the Back button stores the session mistake set on the line, which
\* contains every index that received an incorrect attempt, and adds the
\* accepted and rejected attempts made so far to the aggregate counters.
C5_ExitFlushesMistakesAndCounters ==
    [][event' = "exit" =>
         LET c == StoredCard(repertoires')
             st == StoredStats(repertoires')
             st0 == StoredStats(repertoires)
         IN /\ c.mistakeIndices = moveMistakes
            /\ hist[cur].errIdx \subseteq c.mistakeIndices
            /\ st.totalReviews = st0.totalReviews + hist[cur].accepted
                                   + hist[cur].rejected
            /\ st.correctReviews = st0.correctReviews + hist[cur].accepted]_vars

C5_Witness ==
    /\ event = "exit"
    /\ lastCall.accepted > 0
    /\ lastCall.rejected > 0
    /\ lastCall.errIdx # {}
    /\ StoredCard(repertoires).mistakeIndices # {}

\* C6: a legal move other than the expected one leaves cursor and board as
\* they were, adds one to the error counter of the move and to the session's
\* incorrect count, records the expected index, and the same move is awaited.
C6_WrongMoveFrame ==
    [][event' = "otherMove" =>
         LET exp == currentExpectedMove(currentCard, currentMoveIndex)
         IN /\ cur' = cur
            /\ currentMoveIndex' = currentMoveIndex
            /\ chess' = chess
            /\ boardPosition' = boardPosition
            /\ errorCount' = errorCount + 1
            /\ sessionIncorrect' = sessionIncorrect + 1
            /\ sessionCorrect' = sessionCorrect
            /\ moveMistakes' = moveMistakes \cup {exp}
            /\ showFeedback'
            /\ currentExpectedMove(currentCard', currentMoveIndex') = exp
            /\ ~isAutoPlaying']_vars

C6_Witness ==
    /\ event = "otherMove"
    /\ cur # 0
    /\ errorCount = 2
    /\ currentMoveIndex = 2
    /\ 2 \in moveMistakes

\* C7 (as stated): a move the oracle rejects counts as an incorrect attempt.
C7_IllegalCountsAsIncorrect ==
    [][event' = "illegalMove" =>
         /\ sessionIncorrect' = sessionIncorrect + 1
         /\ errorCount' = errorCount + 1
         /\ showFeedback'
         /\ currentExpectedMove(currentCard, currentMoveIndex) \in moveMistakes']_vars

\* C7 (amended): a move the oracle rejects only clears the selection; no
\* feedback is raised and counters, mistake set, cursor and board stay.
C7_IllegalIsIgnored ==
    [][event' = "illegalMove" =>
         /\ ~selectedSquare'
         /\ UNCHANGED <<sessionIncorrect, sessionCorrect, errorCount,
                        showFeedback, moveMistakes, currentMoveIndex, chess,
                        boardPosition, timers, repertoires, cur>>]_vars

C7_Witness ==
    /\ event = "illegalMove"
    /\ cur # 0
    /\ Turn(chess[cur]) = "w"
    /\ ~showFeedback
    /\ sessionIncorrect = 0

\* C8: on a line with recorded mistakes no click changes cursor, board,
\* counters or mistake set before the resume replay has finished.
C8_NoInputBeforeReplayEnds ==
    [][(/\ cur # 0
        /\ currentCard.mistakeIndices # {}
        /\ (startTimer \/ replay.active)
        /\ event' \in UserEvents) =>
         UNCHANGED <<currentMoveIndex, chess, boardPosition, sessionCorrect,
                     sessionIncorrect, errorCount, moveMistakes>>]_vars

\* C9: when the resume replay ends the cursor is the smallest recorded
\* mistake index and the board holds exactly the moves before it; without
\* recorded mistakes cursor and board are at the start.
C9_ReplayEndsAtFirstMistake ==
    (event = "autoPlayDone" /\ cur # 0) =>
        IF currentCard.mistakeIndices # {}
        THEN /\ currentMoveIndex = SetMin(currentCard.mistakeIndices)
             /\ chess[cur] = currentMoveIndex
        ELSE /\ currentMoveIndex = 0
             /\ chess[cur] = 0

\* C10: the auto-play after an accepted move applies the opponent moves that
\* follow it up to the next user move or the end of the line; at the end the
\* session completes, otherwise the cursor is on that user move and input is
\* awaited.
C10_AutoPlayStopsAtNextUserMove ==
    [][event' \in {"lineComplete", "opponentPlayed"} =>
         LET t == Head(timers)
             s == t.sid
             card == t.currentCard
             nxt == NextUserIndex(card, chess[s])
         IN /\ (event' = "lineComplete" <=> nxt = NumMoves(card))
            /\ (event' = "lineComplete" =>
                  /\ lastCall'.sid = s
                  /\ lastCall'.updateCard
                  /\ lastCall'.board = nxt)
            /\ (event' = "opponentPlayed" /\ s = cur =>
                  /\ cur' = cur
                  /\ chess'[s] = nxt
                  /\ currentMoveIndex' = nxt
                  /\ boardPosition' = nxt
                  /\ ColorAt(card, nxt) = "w"
                  /\ currentExpectedMove(currentCard', currentMoveIndex') = nxt
                  /\ ~showFeedback'
                  /\ ~isAutoPlaying')]_vars

C10_Witness ==
    /\ event = "opponentPlayed"
    /\ cur # 0
    /\ currentMoveIndex = 2
    /\ chess[cur] = 2
    /\ sessionCorrect = 1

\* C11: a session that is mounted and never left with the Back button
\* eventually completes (the attempt budget permitting): a completeSession
\* call of that session is made.
C11_SessionEventuallyCompletes ==
    \A s \in Sessions :
        (cur = s) ~> (lastCall.sid = s \/ attempts = MaxAttempts)

\* the hint on the screen of the mounted session
Hint == HintLevel(currentCard, currentMoveIndex, chess[cur], showFeedback,
                  errorCount)

\* C12: no hint is shown while the awaited move has received no incorrect
\* attempt in this session; after an incorrect attempt the origin square is
\* shown when it was the first on that move, the arrow as well from the
\* second on; after the expected move the error counter is zero and no hint
\* is shown.
C12_HintsFollowErrorCounter ==
    (cur # 0 /\ currentExpectedMove(currentCard, currentMoveIndex) # NoMove) =>
        LET exp == currentExpectedMove(currentCard, currentMoveIndex)
        IN /\ (exp \notin hist[cur].errIdx => Hint = 0)
           /\ (event = "otherMove" =>
                  /\ errorCount >= 1
                  /\ Hint = IF errorCount >= 2 THEN 2 ELSE 1)
           /\ (event = "expectedMove" => errorCount = 0 /\ Hint = 0)

\* the auto-play of the timer that fires next stops on a rejected opponent
\* move: from the closure's cursor + 1 on, the opponent moves before index j
\* are accepted one after the other and the opponent move j is rejected
RejectedAt(j) ==
    /\ timers # << >>
    /\ LET t == Head(timers)
           card == t.currentCard
           first == t.currentMoveIndex + 1
           b == chess[t.sid]
       IN /\ j \in first..(NumMoves(card) - 1)
          /\ \A i \in first..j : ColorAt(card, i) = "b"
          /\ \A i \in first..(j - 1) :
                ChessMoveOk(b + (i - first), SanAt(card, i))
          /\ ~ChessMoveOk(b + (j - first), SanAt(card, j))

\* C13: when the oracle rejects opponent move j during the auto-play, the
\* auto-play stops there: the board holds the moves applied before j, the
\* cursor is j and equals the number of moves on the board, the session goes
\* on, and nothing is written to storage and no completeSession call is made.
C13_RejectedOpponentMoveStopsAutoPlay ==
    [][\A j \in 0..(MaxMoves - 1) :
         (RejectedAt(j) /\ event' \in {"opponentPlayed", "lineComplete"}) =>
            LET t == Head(timers)
                s == t.sid
            IN /\ event' = "opponentPlayed"
               /\ repertoires' = repertoires
               /\ lastCall' = NoCall
               /\ (s = cur =>
                     /\ cur' = cur
                     /\ chess'[s] = chess[s] + (j - (t.currentMoveIndex + 1))
                     /\ currentMoveIndex' = j
                     /\ currentMoveIndex' = chess'[s]
                     /\ boardPosition' = chess'[s])]_vars

C13_Witness ==
    /\ event = "opponentPlayed"
    /\ cur # 0
    /\ currentMoveIndex = 1
    /\ chess[cur] = 1
    /\ NumMoves(currentCard) = 3
    /\ SanAt(currentCard, 1) = NoMove

\* the fields of a line fixed at its creation, and its scheduling fields
LineFrame(c) == <<c.id, c.startFen, c.moves, c.name>>
LineSchedule(c) ==
    <<c.easinessFactor, c.interval, c.repetitions, c.nextReviewDate,
      c.lastReviewed>>

C16_IncorrectResets ==
    [][event' = "scheduleIncorrect" =>
         /\ StoredCard(repertoires').repetitions = 0
         /\ StoredCard(repertoires').interval = 1]_vars

C16_Witness ==
    /\ event = "scheduleIncorrect"
    /\ StoredCard(repertoires).interval = 1
    /\ StoredCard(repertoires).repetitions = 0
    /\ StoredCard(repertoires).easinessFactor = InitialEF + 3 - 8

\* C17: scheduling Correct adds one to the consecutive correct reviews; the
\* interval is 1 for the first, 6 for the second and afterwards the interval
\* before times the new easiness factor, rounded.  From the default state
\* the first three intervals are 1, 6 and 17.
C17_CorrectIntervals ==
    [][event' = "scheduleCorrect" =>
         LET c0 == StoredCard(repertoires)
             c1 == StoredCard(repertoires')
         IN /\ c1.repetitions = c0.repetitions + 1
            /\ (c1.repetitions = 1 => c1.interval = 1)
            /\ (c1.repetitions = 2 => c1.interval = 6)
            /\ (c1.repetitions >= 3 =>
                  /\ 10 * c1.interval - 5 <= c0.interval * c1.easinessFactor
                  /\ c0.interval * c1.easinessFactor < 10 * c1.interval + 5)
            /\ (c0.repetitions = 2 /\ c0.interval = 6 /\ c0.easinessFactor = 27
                  => c1.interval = 17)]_vars

C17_Witness ==
    /\ event = "scheduleCorrect"
    /\ StoredCard(repertoires).repetitions = 4
    /\ StoredCard(repertoires).interval = 49
    /\ StoredCard(repertoires).easinessFactor = 29

\* C18: whatever sessions were completed or left, a stored line with at
\* least one consecutive correct review has an interval of at least one day.
C18_IntervalPositiveAfterCorrect ==
    StoredCard(repertoires).repetitions >= 1 =>
        StoredCard(repertoires).interval >= 1

C18_Witness ==
    /\ event = "exit"
    /\ StoredCard(repertoires).repetitions = 2
    /\ StoredCard(repertoires).interval = 6
    /\ StoredCard(repertoires).mistakeIndices # {}

\* the comments of the mainline text after move k (1-based) of the history
\* and before the next move of the history
CommentsAfter(text, k) ==
    LET main == History(text)
        hi == IF k < Len(main) THEN main[k + 1] ELSE Len(text) + 1
    IN {i \in (main[k] + 1)..(hi - 1) :
           text[i] = "comment" /\ Depth(text, i) = 0}

\* C19: every move of an imported line carries the comment that follows it
\* in the mainline text, before the next move, and no comment when none
\* follows it.
C19_CommentFollowsItsMove ==
    [][event' = "import" =>
         LET moves == repertoires'[1].flashcards[1].moves
         IN /\ Len(moves) = Len(History(pgnText))
            /\ \A k \in 1..Len(moves) :
                  IF CommentsAfter(pgnText, k) = {}
                  THEN moves[k].comment = NoComment
                  ELSE moves[k].comment \in CommentsAfter(pgnText, k)]_vars

\* C20: no move of an imported line carries a comment that stands inside a
\* variation.
C20_NoVariationComment ==
    [][event' = "import" =>
         LET moves == repertoires'[1].flashcards[1].moves
         IN \A k \in 1..Len(moves) :
              moves[k].comment # NoComment =>
                  Depth(pgnText, moves[k].comment) = 0]_vars

\* a bracketed directive [%<word> ...] stands at position i of the text
DirectiveAt(s, i) ==
    /\ StartsAt(s, i, <<"[", "%">>)
    /\ \E j \in (i + 2)..Len(s) : s[j] = "]"

\* C21: the clean text returned by the markup parser contains no bracketed
\* directive [%<word> ...] of any kind, and has no white space at its ends.
C21_CleanTextHasNoDirective ==
    event = "parseComment" =>
        /\ \A i \in 1..Len(parsedComment.cleanText) :
              ~DirectiveAt(parsedComment.cleanText, i)
        /\ trim(parsedComment.cleanText) = parsedComment.cleanText

\* the highlighted squares written in a segment, read off its text
SquaresIn(segment) ==
    CASE segment = "[%csl Ra1,Gb2]" ->
           << [square |-> <<"a", "1">>, color |-> "R"],
              [square |-> <<"b", "2">>, color |-> "G"] >>
      [] segment = "[%csl Ra, GB2]" ->
           << [square |-> <<"b", "2">>, color |-> "G"] >>
      [] OTHER -> << >>

\* the arrows written in a segment, read off its text
ArrowsIn(segment) ==
    CASE segment = "[%cal Yb4a2]" ->
           << [from |-> <<"b", "4">>, to |-> <<"a", "2">>, color |-> "Y"] >>
      [] segment = "[%cal Yb4,RA1B2]" ->
           << [from |-> <<"a", "1">>, to |-> <<"b", "2">>, color |-> "R"] >>
      [] OTHER -> << >>

RECURSIVE SquaresWritten(_)
SquaresWritten(segments) ==
    IF segments = << >> THEN << >>
    ELSE SquaresIn(Head(segments)) \o SquaresWritten(Tail(segments))

RECURSIVE ArrowsWritten(_)
ArrowsWritten(segments) ==
    IF segments = << >> THEN << >>
    ELSE ArrowsIn(Head(segments)) \o ArrowsWritten(Tail(segments))

GoodMoveExample == <<"Good move!", " ", "[%csl Ra1,Gb2]", "[%cal Yb4a2]">>

\* C22: the markup parser returns the squares of all csl directives and the
\* arrows of all cal directives in their order of appearance, each with its
\* colour character and lower-cased square(s); square tokens shorter than 3
\* and arrow tokens shorter than 5 characters are dropped.  For
\* "Good move! [%csl Ra1,Gb2][%cal Yb4a2]" the clean text is "Good move!",
\* the squares are a1 red and b2 green, the arrow is b4->a2 yellow.
C22_SquaresAndArrowsInOrder ==
    event = "parseComment" =>
        /\ parsedComment.highlightedSquares = SquaresWritten(rawComment)
        /\ parsedComment.arrows = ArrowsWritten(rawComment)
        /\ (rawComment = GoodMoveExample =>
              parsedComment.cleanText = Chars("Good move!"))

C22_Witness ==
    /\ event = "parseComment"
    /\ rawComment = GoodMoveExample
    /\ Len(parsedComment.highlightedSquares) = 2
    /\ Len(parsedComment.arrows) = 1

\* the lines of a text that are not header lines
RECURSIVE MoveTextLines(_)
MoveTextLines(lines) ==
    IF lines = << >> THEN << >>
    ELSE (IF Head(lines) # << >> /\ Head(lines)[1].kind = "header"
          THEN << >> ELSE << Head(lines) >>) \o MoveTextLines(Tail(lines))

\* what the oracle makes of the move text of a game as it was written
Decoded(gameText) == loadPgn(Flat(MoveTextLines(gameText)))

\* the text is one game: its header lines come first
SingleGame(content) ==
    \A i, j \in 1..Len(content) :
        (content[j] # << >> /\ content[j][1].kind = "header" /\ i < j)
            => (content[i] = << >> \/ content[i][1].kind = "header")

\* the position after the moves are applied one after the other by the
\* oracle, -1 when one of them is rejected
RECURSIVE Replayed(_, _)
Replayed(moves, board) ==
    IF moves = << >> THEN board
    ELSE IF ChessMoveOk(board, Head(moves).san)
    THEN Replayed(Tail(moves), board + 1)
    ELSE -1

\* C23: a file holding a single game whose move text the oracle decodes
\* into N >= 1 moves is imported as exactly one line of N moves: the moves of
\* the oracle in order, sides alternating from White, and replayed from the
\* start position of the line they lead to the final position of the oracle.
C23_SingleGameRoundTrip ==
    [][(/\ handleFileUpload
        /\ SingleGame(fileContent)
        /\ Decoded(fileContent).ok
        /\ Len(Decoded(fileContent).history) >= 1) =>
         LET history == Decoded(fileContent).history
             cards == repertoires'[1].flashcards
         IN /\ event' = "upload"
            /\ Len(cards) = 1
            /\ Len(cards[1].moves) = Len(history)
            /\ \A i \in 1..Len(history) :
                  /\ cards[1].moves[i].san = history[i]
                  /\ cards[1].moves[i].color = IF i % 2 = 1 THEN "w" ELSE "b"
            /\ Replayed(cards[1].moves, cards[1].startFen)
                  = cards[1].startFen + Len(history)]_vars

\* the games whose move text, as written, the oracle decodes into at least
\* one move, in order
RECURSIVE DecodableGames(_)
DecodableGames(gs) ==
    IF gs = << >> THEN << >>
    ELSE (IF Decoded(Head(gs)).ok /\ Len(Decoded(Head(gs)).history) >= 1
          THEN << Head(gs) >> ELSE << >>) \o DecodableGames(Tail(gs))

\* C24: of the games of a file with several games, those whose move text the
\* oracle rejects and those without a move give no line, and every other
\* game gives exactly one line, with its moves: the lines imported are, in
\* order, the games with at least one decoded move.
C24_OneLinePerDecodableGame ==
    [][(handleFileUpload /\ Len(games') >= 2) =>
         LET good == DecodableGames(games')
             cards == IF event' = "upload" THEN repertoires'[1].flashcards
                      ELSE << >>
         IN /\ Len(cards) = Len(good)
            /\ \A k \in 1..Len(cards) :
                  [i \in 1..Len(cards[k].moves) |-> cards[k].moves[i].san]
                      = Decoded(good[k]).history]_vars

\* the lines of the games, one game after the other
RECURSIVE ConcatGames(_)
ConcatGames(gs) ==
    IF gs = << >> THEN << >>
    ELSE Head(gs) \o ConcatGames(Tail(gs))

\* every game after the first opens with an [Event line, and an [Event line
\* inside a game has only blank lines before it
SplitAtEventLines(gs) ==
    \A k \in 1..Len(gs) :
        /\ gs[k] # << >>
        /\ (k >= 2 => StartsWithEvent(gs[k][1]))
        /\ \A j \in 2..Len(gs[k]) :
              StartsWithEvent(gs[k][j]) => BlankGame(SubSeq(gs[k], 1, j - 1))

\* C25 (as stated): the text is split line by line, an [Event line opening a
\* new game only when the current game is not blank; no line of the input
\* is lost or given to two games, and the games one after the other are the
\* input lines in order.
C25_SplitLosesNoLine ==
    [][handleFileUpload =>
         /\ ConcatGames(games') = fileContent
         /\ SplitAtEventLines(games')]_vars

\* C25 (amended): as above for a text with a line that is not blank; a text
\* of blank lines only is split into no game at all.
C25_SplitLosesNoLineUnlessBlank ==
    [][handleFileUpload =>
         IF BlankGame(fileContent) THEN games' = << >>
         ELSE /\ ConcatGames(games') = fileContent
              /\ SplitAtEventLines(games')]_vars

C25_Witness ==
    /\ event \in {"upload", "uploadFailed"}
    /\ Len(games) = 2
    /\ games[1][1] = << >>
    /\ Len(games[1]) = 3
    /\ StartsWithEvent(games[1][2])
    /\ StartsWithEvent(games[2][1])

\* the value of the header with that key in a text with at most one such
\* header, "" when there is none
ValueOf(content, key) ==
    LET V == {content[i][1].value : i \in
                {j \in 1..Len(content) :
                    /\ content[j] # << >>
                    /\ content[j][1].kind = "header"
                    /\ content[j][1].key = key}}
    IN IF V = {} THEN "" ELSE CHOOSE v \in V : TRUE

\* the header value is present, not empty (nor blank) and not "?"
Usable(value) == value \notin {"", " ", "?"}

\* the name a comment gives, read off the move text
NameInBody(content) ==
    LET body == MoveTextLines(content)
    IN IF \/ body = << << MoveToken(0), Sym("{"), Sym("word"), Sym("}") >> >>
          \/ body = << << MoveToken(0), Sym("{"), Sym("directive"),
                          Sym("word"), Sym("}") >> >>
       THEN << "word" >>
       ELSE << >>

\* the keys of rule 2 that have a usable value in the text
UsableKeys(content) ==
    {k \in 1..Len(headerPriority) :
        Usable(ValueOf(content, headerPriority[k]))}

\* C26: the name of a line is "<White> - <Black>" when both headers are
\* present, not empty, not "?" and one of them contains a move number or an
\* ellipsis; otherwise the first present, non-empty, non-"?" header in the
\* order Event, Opening, Variation, ECO, Site, Annotator, White, Black;
\* otherwise the first line of the first comment without its directives,
\* when not empty and shorter than 100 characters; otherwise none.
C26_NameByFirstRule ==
    [][(handleFileUpload /\ event' = "upload") =>
         LET white == ValueOf(fileContent, "White")
             black == ValueOf(fileContent, "Black")
             name == repertoires'[1].flashcards[1].name
         IN IF /\ Usable(white)
               /\ Usable(black)
               /\ looksLikeMoves(white) \/ looksLikeMoves(black)
            THEN name = << white, " - ", black >>
            ELSE IF UsableKeys(fileContent) # {}
            THEN name = << ValueOf(fileContent,
                             headerPriority[SetMin(UsableKeys(fileContent))]) >>
            ELSE name = NameInBody(fileContent)]_vars

\* C27: every line produced by parsing has easiness factor 2.5, interval 0,
\* no consecutive correct review, no recorded mistake index and its next
\* review at the time of parsing, so all the lines imported are due at once.
C27_ParsedLinesAreDue ==
    [][(handleFileUpload /\ event' = "upload") =>
         LET cards == repertoires'[1].flashcards
         IN /\ \A k \in 1..Len(cards) :
                  /\ cards[k].easinessFactor = 25
                  /\ cards[k].interval = 0
                  /\ cards[k].repetitions = 0
                  /\ cards[k].mistakeIndices = {}
                  /\ cards[k].nextReviewDate = now
            /\ getDueFlashcards(repertoires', RepId, now') = cards]_vars

C27_Witness ==
    /\ event = "upload"
    /\ now = 1
    /\ Len(repertoires[1].flashcards) = 2
    /\ repertoires[1].flashcards[2].nextReviewDate = 1
    /\ Len(getDueFlashcards(repertoires, RepId, now)) = 2

\* C28: a line is reported as due exactly when its next review date is not
\* after the current time: getDueFlashcards returns the lines of the
\* repertoire with nextReviewDate <= now, each once and in stored order, and
\* the empty list for a repertoire id that is not stored.
C28_DueIffNotAfterNow ==
    LET cards == repertoires[1].flashcards
        due == getDueFlashcards(repertoires, RepId, now)
    IN /\ \A k \in 1..Len(cards) :
             cards[k].nextReviewDate <= now
                 <=> \E i \in 1..Len(due) : due[i] = cards[k]
       /\ \A i \in 1..Len(due) : \E k \in 1..Len(cards) : due[i] = cards[k]
       /\ \A i, j \in 1..Len(due) :
             i < j => findIndex(cards, due[i].id) < findIndex(cards, due[j].id)
       /\ getDueFlashcards(repertoires, "r2", now) = << >>

C28_Witness ==
    LET cards == repertoires[1].flashcards
        due == getDueFlashcards(repertoires, RepId, now)
    IN /\ now = 1
       /\ event = "scheduleCorrect"
       /\ cards[1].nextReviewDate = 2
       /\ cards[2].nextReviewDate = 0
       /\ cards[3].nextReviewDate = 1
       /\ Len(due) = 2
       /\ due[1].id = "c2"
       /\ due[2].id = "c3"

\* C29: the outcome of a session is handed to storage at most once: no
\* completeSession call (line update and updateRepertoireStats) is made by a
\* session that has already made one with the Back button, whatever the
\* order of the exit and of a pending auto-play timer, and totalReviews
\* never counts more attempts than were made.
C29_OutcomeHandedOverOnce ==
    /\ lastCall.sid # 0 => ~lastCall.afterExit
    /\ StoredStats(repertoires).totalReviews <= attempts

\* C30: whenever a session ends, by completion or by the Back button, the
\* correct and incorrect counts passed to updateRepertoireStats are the
\* numbers of accepted and of rejected attempts the user made in that
\* session, the accepted move that completes the line included.
C30_CountsMatchAttempts ==
    lastCall.sid # 0 =>
        /\ lastCall.correctCount = lastCall.accepted
        /\ lastCall.incorrectCount = lastCall.rejected

\* the 800 ms pause after an accepted move of the mounted session: its
\* playOpponentMoves timer is pending
FeedbackPause == \E i \in 1..Len(timers) : timers[i].sid = cur

\* C31: while a session is mounted the board holds a prefix of the line, as
\* many moves as the cursor says, one more during the feedback pause after
\* an accepted move; and an attempt is compared with the expected move only
\* when board and cursor agree, the expected move being the one at the
\* cursor.
C31_BoardFollowsCursor ==
    /\ [](cur # 0 =>
            /\ chess[cur] \in 0..NumMoves(currentCard)
            /\ boardPosition = chess[cur]
            /\ chess[cur] = IF FeedbackPause THEN currentMoveIndex + 1
                            ELSE currentMoveIndex
            /\ (FeedbackPause => showFeedback))
    /\ [][event' \in {"expectedMove", "otherMove"} =>
            /\ chess[cur] = currentMoveIndex
            /\ currentExpectedMove(currentCard, currentMoveIndex) = currentMoveIndex
            /\ ~FeedbackPause]_vars

C31_Witness ==
    /\ cur # 0
    /\ event = "expectedMove"
    /\ FeedbackPause
    /\ currentMoveIndex = 2
    /\ chess[cur] = 3
    /\ currentCard.mistakeIndices = {2}

\* handleSquareClick passes its first guard: a move of the user is awaited
AwaitsInput ==
    /\ cur # 0
    /\ ~isAutoPlaying
    /\ currentExpectedMove(currentCard, currentMoveIndex) # NoMove

\* C32: the cursor of a mounted session lies in 0..moves.length and never
\* decreases; it grows only in a step of the resume replay or of the
\* auto-play after an accepted move, never in a step of the user (a wrong or
\* illegal attempt included); and whenever a move of the user is awaited the
\* cursor is on a White move.
C32_CursorMonotoneOnUserMove ==
    /\ [](cur # 0 => currentMoveIndex \in 0..NumMoves(currentCard))
    /\ [](AwaitsInput => ColorAt(currentCard, currentMoveIndex) = "w")
    /\ [][(cur # 0 /\ cur' = cur) =>
            /\ currentMoveIndex' >= currentMoveIndex
            /\ (currentMoveIndex' > currentMoveIndex =>
                  event' \in {"autoPlayMove", "opponentPlayed"})
            /\ (event' \in UserEvents =>
                  currentMoveIndex' = currentMoveIndex)]_vars

C32_Witness ==
    /\ AwaitsInput
    /\ event = "autoPlayDone"
    /\ NumMoves(currentCard) = 3
    /\ currentMoveIndex = 2
    /\ sessionIncorrect = 0

\* the indices of the White moves of a line
UserMoveIndices(card) ==
    {i \in 0..(NumMoves(card) - 1) : ColorAt(card, i) = "w"}

\* C33: whatever sessions were held on the line, every index of its stored
\* mistake set is an index into its moves and the move there is White's.
C33_StoredMistakesAreUserMoves ==
    StoredCard(repertoires).mistakeIndices \subseteq
        UserMoveIndices(StoredCard(repertoires))

C33_Witness ==
    /\ cur = 0
    /\ event = "exit"
    /\ lastCall.loaded = {0}
    /\ StoredCard(repertoires).mistakeIndices = {0, 2}
    /\ NumMoves(StoredCard(repertoires)) = 3

\* the stored repertoire
Stored == repertoires[getRepertoireIndex(repertoires, RepId)]

\* C34: from zeroed counters, after any updates with counts >= 0:
\* correctReviews <= totalReviews, streak <= longestStreak, longestStreak
\* never decreases, and accuracy is 100 * correctReviews / totalReviews
\* rounded to the nearest integer (a half upwards, as Math.round does), 0
\* while totalReviews is 0.
C34_CountersConsistent ==
    /\ [](/\ Stored.stats.correctReviews <= Stored.stats.totalReviews
          /\ Stored.streak <= Stored.longestStreak
          /\ Stored.stats.accuracy =
               IF Stored.stats.totalReviews > 0
               THEN RoundPercentExact(Stored.stats.correctReviews,
                                      Stored.stats.totalReviews)
               ELSE 0)
    /\ [][Stored'.longestStreak >= Stored.longestStreak]_vars

\* C35: when a session ends (completeSession is called) the streak becomes 0
\* if the session had an incorrect attempt, whatever it had of correct ones,
\* and grows by the session's number of correct moves if it had none; an
\* update for an id that is not stored leaves storage as it is.
C35_StreakFollowsSession ==
    /\ [][lastCall'.sid # 0 =>
            Stored'.streak = IF lastCall'.rejected > 0 THEN 0
                             ELSE Stored.streak + lastCall'.accepted]_vars
    /\ [](\A correctCount \in 0..1 : \A incorrectCount \in 0..1 :
            \A streakBroken \in BOOLEAN :
              updateRepertoireStats(repertoires, UnknownId, correctCount,
                                    incorrectCount, streakBroken, now)
                = repertoires)

\* the entries of data without the k-th
Without(data, k) == SubSeq(data, 1, k - 1) \o SubSeq(data, k + 1, Len(data))

\* C36: whatever calls of saveRepertoire, deleteRepertoire and
\* updateFlashcard were made, no two stored repertoires have the same id;
\* saving puts the repertoire in the place of the entry with its id, the
\* other entries staying, or at the end when there is none, and
\* getRepertoire then returns it; deleting removes the entry with that id
\* and no other; updateFlashcard for an id that is not stored, or for a
\* line the repertoire does not hold, leaves storage as it is.
C36_StorageKeyedById ==
    /\ [](\A i, j \in 1..Len(repertoires) :
            repertoires[i].id = repertoires[j].id => i = j)
    /\ [][storageCall'.op = "save" =>
            LET saved == storageCall'.repertoire
                k == getRepertoireIndex(repertoires, saved.id)
            IN /\ IF k > 0
                  THEN /\ Len(repertoires') = Len(repertoires)
                       /\ repertoires'[k] = saved
                       /\ Without(repertoires', k) = Without(repertoires, k)
                  ELSE /\ Len(repertoires') = Len(repertoires) + 1
                       /\ repertoires'[Len(repertoires')] = saved
                       /\ SubSeq(repertoires', 1, Len(repertoires)) = repertoires
               /\ getRepertoire(repertoires', saved.id) = saved]_vars
    /\ [][storageCall'.op = "delete" =>
            LET k == getRepertoireIndex(repertoires, storageCall'.id)
            IN /\ repertoires' = IF k > 0 THEN Without(repertoires, k)
                                 ELSE repertoires
               /\ getRepertoire(repertoires', storageCall'.id) = Undefined]_vars
    /\ [][storageCall'.op = "update" =>
            LET k == getRepertoireIndex(repertoires, storageCall'.id)
            IN (k = 0 \/ findIndex(repertoires[k].flashcards,
                                   storageCall'.flashcard.id) = 0) =>
                 repertoires' = repertoires]_vars

C36_Witness ==
    /\ storageCall.op = "save"
    /\ Len(repertoires) = 2
    /\ repertoires[1] = storageCall.repertoire
    /\ repertoires[2].flashcards # << >>
    /\ repertoires[2].flashcards[1].interval = 1

====
